---- MODULE Spec2Model ----
(***************************************************************************)
(* Model of the analysis pipeline of iec_st_compiler for one CASE arm:     *)
(* the parse tree the grammar yields for the arm's statements (grammar.py, *)
(* parser.py), the Program Dependency Graph built from it (pdg.py) and the *)
(* invariant templates extracted from the PDG (invariants.py).             *)
(*                                                                         *)
(* Text is a sequence of atoms: every leaf string of the parse tree and    *)
(* every operator symbol is one atom, a blank is the atom " ".             *)
(* Python's None and the empty string are both the empty string / the      *)
(* empty sequence (the code only tests them for truthiness).               *)
(***************************************************************************)
EXTENDS Integers, Sequences, FiniteSets, TLC

VARIABLES
    source,          \* the statements of the CASE arm, as written
    variables,       \* the variable table: name -> role
    state_variable,  \* the variable the CASE switches on
    hash_order,      \* the iteration order of sets of names in this run
    ast,             \* the parse tree of the arm (a case_element)
    pdg,             \* the ProgramDependencyGraph being built
    templates,       \* the list extract_all_templates returns
    pc,              \* the step of the pipeline reached
    var_name,        \* classifier: the declared name, a sequence of fragments
    scope,           \* classifier: the declaration section of the name
    var_type,        \* classifier: the role classify_variable returns
    language,        \* parser: the pattern parsed against
    orig,            \* parser: the input text, a sequence of characters
    so_far,          \* parser: the result_so_far handed to parse_line
    rest_length,     \* parser: Parser.rest_length
    result           \* parser: what the call returned or raised

pipelineVars == <<source, variables, state_variable, hash_order, ast, pdg, templates>>
classifierVars == <<var_name, scope, var_type>>
parserVars == <<language, orig, so_far, rest_length, result>>

vars == <<pipelineVars, pc, classifierVars, parserVars>>

(***************************************************************************)
(* Bounds of the checked inputs.                                           *)
(***************************************************************************)
\* number of statements (assignments and IFs, nested ones included) of an arm
MaxStmts == 4
\* nesting depth of IF statements
MaxDepth == 3

None == ""

\* the parts of the state a run of one component leaves untouched
ClassifierIdle == var_name = <<>> /\ scope = None /\ var_type = None
ParserIdle ==
    /\ language = None /\ orig = <<>> /\ so_far = <<>>
    /\ rest_length = -1 /\ result = None

(***************************************************************************)
(* Source programs (abstract syntax of the Structured Text of one arm).    *)
(* An expression is a sequence of items: variables, literals, operators    *)
(* (named by their grammar rule) and parenthesised sub-expressions.        *)
(***************************************************************************)
V(name) == [k |-> "var", t |-> name, sub |-> <<>>]
I(text) == [k |-> "int", t |-> text, sub |-> <<>>]
B(text) == [k |-> "bool", t |-> text, sub |-> <<>>]
O(rule) == [k |-> "op", t |-> rule, sub |-> <<>>]
P(items) == [k |-> "paren", t |-> "", sub |-> items]

Asg(lhs, rhs) ==
    [k |-> "asg", pos |-> 0, lhs |-> lhs, e |-> rhs,
     then |-> <<>>, elsifs |-> <<>>, else |-> <<>>]
If(cond, then, elsifs, else) ==
    [k |-> "if", pos |-> 0, lhs |-> "", e |-> cond,
     then |-> then, elsifs |-> elsifs, else |-> else]
Elsif(cond, body) == [e |-> cond, body |-> body]

\* H_Sensor <= 100
CondSensor == <<V("H_Sensor"), O("less_or_equal"), I("100")>>
\* H_Sensor <= (H_Target + H_Offset)
CondParen ==
    <<V("H_Sensor"), O("less_or_equal"),
      P(<<V("H_Target"), O("adding"), V("H_Offset")>>)>>
\* tmp = 1
CondTmp == <<V("tmp"), O("equals"), I("1")>>

Conds == {CondSensor, CondParen, CondTmp}

AsgStmts ==
    { Asg("H_Actuator", <<B("FALSE")>>),
      Asg("H_Actuator", <<V("tmp")>>),
      Asg("st", <<I("20")>>),
      Asg("tmp", <<V("H_Sensor"), O("adding"), I("1")>>) }

RECURSIVE StmtLists(_, _)
\* the zero or one ELSIF branches of b statements in all, nested at most d deep
ElsifLists(b, d) ==
    IF b = 0 THEN {<<>>}
    ELSE { <<Elsif(CondTmp, body)>> : body \in StmtLists(b, d) }

\* the IF statements whose THEN list has a statements, whose ELSIF branches
\* have b and whose ELSE list has c (c = 0: no ELSE), nested at most d deep
IfStmtsOf(a, b, c, d) ==
    { If(cond, t, ei, el) :
        cond \in Conds, t \in StmtLists(a, d - 1),
        ei \in ElsifLists(b, d - 1), el \in StmtLists(c, d - 1) }

\* the IF statements of exactly n statements, nested at most d deep; a THEN
\* list without statements (IF c THEN ; ELSE ...) is taken with an ELSE alone
IfStmts(n, d) ==
    IF d = 0 \/ n < 2 THEN {}
    ELSE UNION { IfStmtsOf(ab[1], ab[2], n - 1 - ab[1] - ab[2], d) :
                   ab \in { x \in (0..(n - 1)) \X (0..(n - 1)) :
                              /\ x[1] + x[2] <= n - 1
                              /\ x[1] = 0 => x[2] = 0 } }

\* the statement lists of exactly n statements, nested at most d deep
StmtLists(n, d) ==
    IF n = 0 THEN {<<>>}
    ELSE UNION { { <<s>> \o r :
                     s \in (IF k = 1 THEN AsgStmts ELSE {}) \cup IfStmts(k, d),
                     r \in StmtLists(n - k, d) } : k \in 1..n }

\* source positions: statements are numbered in source order from 1
RECURSIVE Size(_)
RECURSIVE ListSize(_)
RECURSIVE ElsifsSize(_)
Size(s) ==
    IF s.k = "asg" THEN 1
    ELSE 1 + ListSize(s.then) + ElsifsSize(s.elsifs) + ListSize(s.else)
ListSize(l) == IF Len(l) = 0 THEN 0 ELSE Size(Head(l)) + ListSize(Tail(l))
ElsifsSize(l) ==
    IF Len(l) = 0 THEN 0 ELSE ListSize(Head(l).body) + ElsifsSize(Tail(l))

RECURSIVE Number(_, _)
RECURSIVE NumberList(_, _)
RECURSIVE NumberElsifs(_, _)
Number(s, p) ==
    IF s.k = "asg" THEN [s EXCEPT !.pos = p]
    ELSE [s EXCEPT !.pos = p,
                   !.then = NumberList(s.then, p + 1),
                   !.elsifs = NumberElsifs(s.elsifs, p + 1 + ListSize(s.then)),
                   !.else = NumberList(s.else,
                               p + 1 + ListSize(s.then) + ElsifsSize(s.elsifs))]
NumberList(l, p) ==
    IF Len(l) = 0 THEN <<>>
    ELSE <<Number(Head(l), p)>> \o NumberList(Tail(l), p + Size(Head(l)))
NumberElsifs(l, p) ==
    IF Len(l) = 0 THEN <<>>
    ELSE <<[Head(l) EXCEPT !.body = NumberList(Head(l).body, p)]>>
         \o NumberElsifs(Tail(l), p + ListSize(Head(l).body))

Programs ==
    { NumberList(l, 1) : l \in UNION { StmtLists(n, MaxDepth) : n \in 0..MaxStmts } }

(***************************************************************************)
(* Parse trees.  A tuple node (name, [children]) of the parser is a record *)
(* with that tag and those kids; a leaf string is a record with tag "" and *)
(* the string as its text.  pos is the identity of a statement node (the   *)
(* code holds a reference to the tree node in PDGNode.ast_node); it is 0   *)
(* for every other node.                                                   *)
(***************************************************************************)
Leaf(s) == [tag |-> "", text |-> s, kids |-> <<>>, pos |-> 0]
Tuple(name, kids) == [tag |-> name, text |-> "", kids |-> kids, pos |-> 0]
NoTree == [tag |-> "None", text |-> "", kids |-> <<>>, pos |-> 0]

(***************************************************************************)
(* The tree the parser builds for each grammar rule: a named rule emits    *)
(* (name, children), a regex emits its text as a leaf, literals and        *)
(* keywords are consumed without emitting anything, and the children of an *)
(* anonymous rule (_variable, _primary_expression, ...) go to the parent.  *)
(***************************************************************************)
variable_name(name) == Tuple("variable_name", <<Leaf(name)>>)
integer_literal(text) == Tuple("integer_literal", <<Leaf(text)>>)
boolean_literal(text) == Tuple("boolean_literal", <<Leaf(text)>>)
\* equals, less_or_equal, adding, logical_and, ...: rules that are one literal
operator_rule(rule) == Tuple(rule, <<>>)

RECURSIVE expression(_)
\* ("(", expression, ")"): both parentheses are literals
_primary_expression(item) ==
    IF item.k = "paren" THEN expression(item.sub) ELSE variable_name(item.t)

\* the child an item of an expression adds to the enclosing expression node
ExprNode(item) ==
    CASE item.k = "int" -> integer_literal(item.t)
      [] item.k = "bool" -> boolean_literal(item.t)
      [] item.k = "op" -> operator_rule(item.t)
      [] OTHER -> _primary_expression(item)

expression(items) ==
    Tuple("expression", [i \in 1..Len(items) |-> ExprNode(items[i])])

assignment_statement(s) ==
    [Tuple("assignment_statement", <<variable_name(s.lhs), expression(s.e)>>)
       EXCEPT !.pos = s.pos]

RECURSIVE statement_list(_)
RECURSIVE ElsifKids(_)
\* -1, (Keyword("ELSIF"), expression, Keyword("THEN"), statement_list)
ElsifKids(elsifs) ==
    IF Len(elsifs) = 0 THEN <<>>
    ELSE <<expression(Head(elsifs).e), statement_list(Head(elsifs).body)>>
         \o ElsifKids(Tail(elsifs))

if_statement(s) ==
    [Tuple("if_statement",
           <<expression(s.e), statement_list(s.then)>>
           \o ElsifKids(s.elsifs)
           \o (IF Len(s.else) = 0 THEN <<>> ELSE <<statement_list(s.else)>>))
       EXCEPT !.pos = s.pos]

_statement(s) == IF s.k = "asg" THEN assignment_statement(s) ELSE if_statement(s)

statement_list(stmts) ==
    Tuple("statement_list", [i \in 1..Len(stmts) |-> _statement(stmts[i])])

\* case_list, ":", statement_list
case_element(state_id, stmts) ==
    Tuple("case_element",
          <<Tuple("case_list",
                  <<Tuple("case_list_element", <<integer_literal(state_id)>>)>>),
            statement_list(stmts)>>)

(***************************************************************************)
(* Tree helpers of pdg.py.                                                 *)
(***************************************************************************)
_is_node_type(node, node_type) == node.tag # "" /\ node.tag = node_type

_iterate_ast_list(node) == node.kids

_get_children(node) == _iterate_ast_list(node)

RECURSIVE FirstLeafText(_)
FirstLeafText(kids) ==
    IF Len(kids) = 0 THEN None
    ELSE IF Head(kids).tag = "" THEN Head(kids).text
    ELSE FirstLeafText(Tail(kids))

_extract_text(node) == IF node.tag = "" THEN node.text ELSE FirstLeafText(node.kids)

(***************************************************************************)
(* Text: sequences of atoms.                                               *)
(***************************************************************************)
RECURSIVE Join(_, _)
\* sep.join(parts)
Join(sep, parts) ==
    IF Len(parts) = 0 THEN <<>>
    ELSE IF Len(parts) = 1 THEN Head(parts)
    ELSE Head(parts) \o sep \o Join(sep, Tail(parts))

StartsWith(text, prefix) ==
    /\ Len(text) >= Len(prefix)
    /\ SubSeq(text, 1, Len(prefix)) = prefix

RECURSIVE Replace(_, _, _)
\* text.replace(old, new), old not empty
Replace(text, old, new) ==
    IF Len(text) = 0 THEN <<>>
    ELSE IF StartsWith(text, old)
         THEN new \o Replace(SubSeq(text, Len(old) + 1, Len(text)), old, new)
    ELSE <<Head(text)>> \o Replace(Tail(text), old, new)

RECURSIVE LStrip(_)
LStrip(text) ==
    IF Len(text) > 0 /\ Head(text) = " " THEN LStrip(Tail(text)) ELSE text

RECURSIVE RStrip(_)
RStrip(text) ==
    IF Len(text) > 0 /\ text[Len(text)] = " "
    THEN RStrip(SubSeq(text, 1, Len(text) - 1)) ELSE text

Strip(text) == RStrip(LStrip(text))

\* text contains part as a contiguous piece
Contains(text, part) ==
    \E i \in 0..(Len(text) - Len(part)) : SubSeq(text, i + 1, i + Len(part)) = part

(***************************************************************************)
(* PDGBuilder._format_expression_ast: the expression printer.              *)
(***************************************************************************)
OperatorTags ==
    {"less_or_equal", "greater_or_equal", "less_than", "greater_than", "equals",
     "not_equal", "adding", "subtracting", "multiply_with", "divide_by",
     "logical_and", "logical_or", "logical_not", "modulo", "assign"}

operator_map(tag) ==
    CASE tag = "less_or_equal" -> "<="
      [] tag = "greater_or_equal" -> ">="
      [] tag = "less_than" -> "<"
      [] tag = "greater_than" -> ">"
      [] tag = "equals" -> "="
      [] tag = "not_equal" -> "<>"
      [] tag = "adding" -> "+"
      [] tag = "subtracting" -> "-"
      [] tag = "multiply_with" -> "*"
      [] tag = "divide_by" -> "/"
      [] tag = "logical_and" -> "AND"
      [] tag = "logical_or" -> "OR"
      [] tag = "logical_not" -> "NOT"
      [] tag = "modulo" -> "MOD"
      [] tag = "assign" -> ":="

RECURSIVE FormatParts(_)
RECURSIVE FormatPartsOfList(_)
\* traverse(node): the parts appended for node, each part a text
FormatParts(node) ==
    IF node.tag = "" THEN <<(<<node.text>>)>>
    ELSE (IF node.tag \in OperatorTags THEN <<(<<operator_map(node.tag)>>)>> ELSE <<>>)
         \o FormatPartsOfList(node.kids)
FormatPartsOfList(kids) ==
    IF Len(kids) = 0 THEN <<>>
    ELSE FormatParts(Head(kids)) \o FormatPartsOfList(Tail(kids))

\* the clean-up of the joined text
FormatCleanup(text) ==
    LET t1 == Replace(Replace(text, <<" ", "(">>, <<"(">>), <<"(", " ">>, <<"(">>)
        t2 == Replace(t1, <<" ", ")">>, <<")">>)
        t3 == Replace(Replace(t2, <<" ", "[">>, <<"[">>), <<"[", " ">>, <<"[">>)
        t4 == Replace(t3, <<" ", "]">>, <<"]">>)
        t5 == Replace(t4, <<" ", ".", " ">>, <<".">>)
    IN  Replace(t5, <<" ", ",">>, <<",">>)

_format_expression_ast(expr_ast) ==
    FormatCleanup(Join(<<" ">>, FormatParts(expr_ast)))

(***************************************************************************)
(* ProgramDependencyGraph: nodes[i] is the node of id i - 1, edges is the  *)
(* list of edges in the order they were added.                             *)
(***************************************************************************)
ProgramDependencyGraph(state_id) ==
    [state_id |-> state_id, nodes |-> <<>>, edges |-> <<>>, next_node_id |-> 0]

PDGEdge(from_node, to_node, edge_type, variable, label) ==
    [from_node |-> from_node, to_node |-> to_node, edge_type |-> edge_type,
     variable |-> variable, label |-> label]

create_node(g, statement, stmt_type, reads, writes, ast_node) ==
    [g EXCEPT !.nodes = Append(@, [id |-> g.next_node_id,
                                   statement |-> statement,
                                   statement_type |-> stmt_type,
                                   variables_read |-> reads,
                                   variables_written |-> writes,
                                   ast_node |-> ast_node]),
              !.next_node_id = @ + 1]

NodeIds(g) == { g.nodes[i].id : i \in 1..Len(g.nodes) }

NodeOf(g, node_id) == g.nodes[node_id + 1]

\* the sub-list of the elements of a list that satisfy Test, in order
SelectIndices(n, Test(_)) ==
    LET idx == { i \in 1..n : Test(i) }
        F[k \in 0..n] ==
            IF k = 0 THEN <<>>
            ELSE IF k \in idx THEN Append(F[k - 1], k) ELSE F[k - 1]
    IN  F[n]

get_predecessors(g, node_id, edge_type) ==
    LET Hit(i) == /\ g.edges[i].to_node = node_id
                  /\ (edge_type = None \/ g.edges[i].edge_type = edge_type)
        idx == SelectIndices(Len(g.edges), Hit)
    IN  [k \in 1..Len(idx) |-> g.edges[idx[k]].from_node]

(***************************************************************************)
(* Iteration over a Python set of variable names visits them in an order   *)
(* the language leaves open (it depends on the process's string hashes):   *)
(* order is the sequence of all names in the order of the run.             *)
(***************************************************************************)
Names == {"H_Sensor", "H_Target", "H_Offset", "H_Actuator", "st", "tmp"}

HashOrders ==
    { <<"H_Sensor", "H_Target", "H_Offset", "H_Actuator", "st", "tmp">>,
      <<"tmp", "st", "H_Actuator", "H_Offset", "H_Target", "H_Sensor">> }

\* list(a_set): the elements of a_set in the order of the run
IterateSet(a_set, order) ==
    LET In(i) == order[i] \in a_set
        idx == SelectIndices(Len(order), In)
    IN  [k \in 1..Len(idx) |-> order[idx[k]]]

(***************************************************************************)
(* PDGBuilder: node creation.                                              *)
(***************************************************************************)
RECURSIVE FirstOfType(_, _)
\* the first of the nodes whose type is one of types, NoTree if there is none
FirstOfType(kids, types) ==
    IF Len(kids) = 0 THEN NoTree
    ELSE IF \E t \in types : _is_node_type(Head(kids), t) THEN Head(kids)
    ELSE FirstOfType(Tail(kids), types)

_extract_statement_list(case_element_ast) ==
    LET item == FirstOfType(_iterate_ast_list(case_element_ast), {"statement_list"})
    IN  IF item = NoTree THEN <<>> ELSE _get_children(item)

_extract_assignment_lhs(assignment_ast) ==
    LET item == FirstOfType(_iterate_ast_list(assignment_ast), {"variable_name"})
    IN  IF item = NoTree THEN None ELSE _extract_text(item)

RECURSIVE _extract_expression_variables(_)
_extract_expression_variables(node) ==
    (IF _is_node_type(node, "variable_name") /\ _extract_text(node) # None
     THEN {_extract_text(node)} ELSE {})
    \cup UNION { _extract_expression_variables(node.kids[i]) : i \in 1..Len(node.kids) }

_extract_condition_variables(if_stmt_ast) ==
    LET item == FirstOfType(_iterate_ast_list(if_stmt_ast), {"expression"})
    IN  IF item = NoTree THEN {} ELSE _extract_expression_variables(item)

_format_condition(if_stmt_ast) ==
    LET item == FirstOfType(_iterate_ast_list(if_stmt_ast), {"expression"})
    IN  IF item = NoTree THEN <<"UNKNOWN CONDITION">> ELSE _format_expression_ast(item)

_format_condition_ast(expr_ast) == _format_expression_ast(expr_ast)

_format_assignment_statement(stmt_ast, lhs) ==
    LET expr == FirstOfType(_iterate_ast_list(stmt_ast), {"expression"})
        rhs_ast == IF expr # NoTree THEN expr
                   ELSE FirstOfType(_iterate_ast_list(stmt_ast),
                          {"boolean_literal", "integer_literal", "real_literal"})
    IN  IF lhs # None /\ rhs_ast # NoTree
        THEN <<lhs, " ", ":=", " ">> \o _format_expression_ast(rhs_ast)
        ELSE <<(IF lhs = None THEN "None" ELSE lhs), " ", ":=", " ", "UNKNOWN">>

\* the right-hand side of an assignment statement
AssignmentRhs(stmt_ast) == FirstOfType(_iterate_ast_list(stmt_ast), {"expression"})

\* the variables the assignment node is given as its reads
AssignmentReads(stmt_ast) == _extract_expression_variables(stmt_ast)

_create_assignment_node(g, stmt_ast) ==
    LET lhs_var == _extract_assignment_lhs(stmt_ast)
        rhs_vars == AssignmentReads(stmt_ast)
        statement_str == _format_assignment_statement(stmt_ast, lhs_var)
    IN  create_node(g, statement_str, "assignment", rhs_vars,
                    IF lhs_var # None THEN {lhs_var} ELSE {}, stmt_ast)

RECURSIVE ThenScan(_, _)
ThenScan(kids, found_expression) ==
    IF Len(kids) = 0 THEN <<>>
    ELSE IF _is_node_type(Head(kids), "expression") THEN ThenScan(Tail(kids), TRUE)
    ELSE IF found_expression /\ _is_node_type(Head(kids), "statement_list")
         THEN _get_children(Head(kids))
    ELSE ThenScan(Tail(kids), found_expression)

_extract_then_statements(if_stmt_ast) == ThenScan(_iterate_ast_list(if_stmt_ast), FALSE)

RECURSIVE ElsifScan(_, _, _, _)
\* the loop over the children of the IF statement, from the state
\* (current_condition, looking_for_condition, looking_for_stmt)
ElsifScan(children, current_condition, looking_for_condition, looking_for_stmt) ==
    IF Len(children) = 0 THEN <<>>
    ELSE LET child == Head(children) IN
         IF _extract_text(child) = "ELSIF"
         THEN ElsifScan(Tail(children), NoTree, TRUE, FALSE)
         ELSE IF looking_for_condition /\ _is_node_type(child, "expression")
         THEN ElsifScan(Tail(children), child, FALSE, TRUE)
         ELSE IF looking_for_stmt /\ _is_node_type(child, "statement_list")
         THEN (IF current_condition # NoTree
               THEN <<[condition |-> current_condition, stmts |-> _get_children(child)]>>
               ELSE <<>>)
              \o ElsifScan(Tail(children), NoTree, looking_for_condition, FALSE)
         ELSE ElsifScan(Tail(children), current_condition,
                        looking_for_condition, looking_for_stmt)

_extract_elsif_blocks(if_stmt_ast) ==
    ElsifScan(_get_children(if_stmt_ast), NoTree, FALSE, FALSE)

RECURSIVE ElseScan_FirstList(_, _)
\* a scan that steps over an ELSIF condition alone and so takes the list of
\* the first ELSIF for the ELSE list
ElseScan_FirstList(children, idx) ==
    IF idx >= Len(children) THEN <<>>
    ELSE IF _is_node_type(children[idx + 1], "statement_list")
         THEN _get_children(children[idx + 1])
    ELSE ElseScan_FirstList(children, idx + 1)

RECURSIVE ElseScan(_, _)
\* the loop of _extract_else_statements from index idx (counted from 0)
ElseScan(children, idx) ==
    IF idx >= Len(children) THEN <<>>
    ELSE IF _is_node_type(children[idx + 1], "expression") THEN ElseScan(children, idx + 2)
    ELSE IF _is_node_type(children[idx + 1], "statement_list")
         THEN _get_children(children[idx + 1])
    ELSE ElseScan(children, idx + 1)

_extract_else_statements(if_stmt_ast) ==
    LET children == _get_children(if_stmt_ast)
    IN  IF Len(children) < 2 THEN <<>> ELSE ElseScan(children, 2)

\* control edges to every node id in first..last, each from the node created
\* just before the block
AddControlEdges_FromPrevious(g, from_node, first, last, label) ==
    IF last < first THEN g
    ELSE [g EXCEPT !.edges = @ \o [i \in 1..(last - first + 1) |->
                     PDGEdge(first - 1, first + i - 1, "control", None, label)]]

\* control edges from every node id in first..last back to from_node
AddControlEdges_Backward(g, from_node, first, last, label) ==
    IF last < first THEN g
    ELSE [g EXCEPT !.edges = @ \o [i \in 1..(last - first + 1) |->
                     PDGEdge(first + i - 1, from_node, "control", None, label)]]

\* control edges from from_node to every node id in first..last, in this order
AddControlEdges(g, from_node, first, last, label) ==
    IF last < first THEN g
    ELSE [g EXCEPT !.edges = @ \o [i \in 1..(last - first + 1) |->
                     PDGEdge(from_node, first + i - 1, "control", None, label)]]

RECURSIVE _create_nodes_from_statements(_, _)
RECURSIVE ElsifLoop(_, _)
\* the loop over the ELSIF blocks
ElsifLoop(g, blocks) ==
    IF Len(blocks) = 0 THEN g
    ELSE LET b == Head(blocks)
             g1 == create_node(g, <<"ELSIF", " ">> \o _format_condition_ast(b.condition),
                               "condition", _extract_condition_variables(b.condition),
                               {}, b.condition)
             g2 == _create_nodes_from_statements(g1, b.stmts)
         IN  ElsifLoop(AddControlEdges(g2, g.next_node_id, g1.next_node_id,
                                       g2.next_node_id - 1, "elsif"),
                       Tail(blocks))

_create_if_statement_nodes(g, if_stmt_ast) ==
    LET g1 == create_node(g, <<"IF", " ">> \o _format_condition(if_stmt_ast),
                          "condition", _extract_condition_variables(if_stmt_ast),
                          {}, if_stmt_ast)
        condition_id == g.next_node_id
        g2 == _create_nodes_from_statements(g1, _extract_then_statements(if_stmt_ast))
        g3 == AddControlEdges(g2, condition_id, g1.next_node_id,
                              g2.next_node_id - 1, "then")
        g4 == ElsifLoop(g3, _extract_elsif_blocks(if_stmt_ast))
        else_statements == _extract_else_statements(if_stmt_ast)
        g5 == _create_nodes_from_statements(g4, else_statements)
    IN  IF Len(else_statements) = 0 THEN g4
        ELSE AddControlEdges(g5, condition_id, g4.next_node_id,
                             g5.next_node_id - 1, "else")

_create_nodes_from_statements(g, statements) ==
    IF Len(statements) = 0 THEN g
    ELSE LET stmt == Head(statements)
             g1 == IF _is_node_type(stmt, "assignment_statement")
                   THEN _create_assignment_node(g, stmt)
                   ELSE IF _is_node_type(stmt, "if_statement")
                   THEN _create_if_statement_nodes(g, stmt)
                   ELSE g
         IN  _create_nodes_from_statements(g1, Tail(statements))

(***************************************************************************)
(* PDGBuilder._add_control_dependencies: pruning of the cascaded edges.    *)
(***************************************************************************)
\* is there a control edge p1 -> p2
IsParent(g, p1, p2) ==
    \E i \in 1..Len(g.edges) :
        /\ g.edges[i].from_node = p1
        /\ g.edges[i].to_node = p2
        /\ g.edges[i].edge_type = "control"

\* the slip of removing a predecessor only if it is the parent of all the others
RedundantPredecessors_ParentOfAll(g, preds) ==
    { preds[i] : i \in { j \in 1..Len(preds) :
                           \A k \in 1..Len(preds) :
                               preds[j] # preds[k] => IsParent(g, preds[j], preds[k]) } }

\* to_remove: the predecessors that are the parent of another predecessor
RedundantPredecessors(g, preds) ==
    { preds[i] : i \in { j \in 1..Len(preds) :
                           \E k \in 1..Len(preds) :
                               preds[j] # preds[k] /\ IsParent(g, preds[j], preds[k]) } }

\* one iteration of the loop over the nodes
PruneNode(g, node_id) ==
    LET preds == get_predecessors(g, node_id, "control")
        to_remove == IF Len(preds) <= 1 THEN {} ELSE RedundantPredecessors(g, preds)
        Keep(i) == ~ ( /\ g.edges[i].to_node = node_id
                       /\ g.edges[i].from_node \in to_remove
                       /\ g.edges[i].edge_type = "control" )
        idx == SelectIndices(Len(g.edges), Keep)
    IN  IF to_remove = {} THEN g
        ELSE [g EXCEPT !.edges = [k \in 1..Len(idx) |-> g.edges[idx[k]]]]

RECURSIVE PruneFrom(_, _)
PruneFrom(g, node_id) ==
    IF node_id >= Len(g.nodes) THEN g ELSE PruneFrom(PruneNode(g, node_id), node_id + 1)

_add_control_dependencies(g) == PruneFrom(g, 0)

(***************************************************************************)
(* PDGBuilder._add_data_dependencies: last_def is a function from the      *)
(* variables defined so far to the id of their last definition.            *)
(***************************************************************************)
\* the data edges into the node, one per variable read that has a definition
DataEdgesInto(node, last_def, order) ==
    LET reads == IterateSet(node.variables_read \cap DOMAIN last_def, order)
    IN  [k \in 1..Len(reads) |->
            PDGEdge(last_def[reads[k]], node.id, "data", reads[k],
                    "def-use: " \o reads[k])]

\* the slip of keeping the first definition of a variable
UpdateLastDef_FirstWriter(node, last_def) ==
    [v \in DOMAIN last_def \cup node.variables_written |->
        IF v \in DOMAIN last_def THEN last_def[v] ELSE node.id]

\* last_def after the node's writes
UpdateLastDef(node, last_def) ==
    [v \in DOMAIN last_def \cup node.variables_written |->
        IF v \in node.variables_written THEN node.id ELSE last_def[v]]

RECURSIVE DataFrom(_, _, _, _)
DataFrom(g, node_id, last_def, order) ==
    IF node_id >= Len(g.nodes) THEN g
    ELSE LET node == NodeOf(g, node_id)
         IN  DataFrom([g EXCEPT !.edges = @ \o DataEdgesInto(node, last_def, order)],
                      node_id + 1, UpdateLastDef(node, last_def), order)

_add_data_dependencies(g, order) == DataFrom(g, 0, <<>>, order)

(***************************************************************************)
(* InvariantExtractor.  A template is a record with the fields of the      *)
(* three template classes (those a class lacks are empty); node is not a   *)
(* field of the code: it records the id of the PDG node the template was   *)
(* made for, so that properties can relate a template to its statement.    *)
(***************************************************************************)
InvariantTemplate(type, node_id) ==
    [type |-> type, node |-> node_id, id |-> <<>>, state_id |-> "",
     variables |-> <<>>, structure |-> <<>>,
     sensing_var |-> "", actuation_var |-> "", operator |-> "",
     actuation_value |-> <<>>,
     sensing_vars |-> <<>>, configuration_vars |-> <<>>,
     condition |-> <<>>, action |-> <<>>,
     source_state |-> "", dest_state |-> <<>>, transition_condition |-> <<>>,
     state_variable |-> "", condition_variables |-> <<>>]

_extract_condition_expression(cond_node) ==
    LET statement == cond_node.statement
    IN  IF StartsWith(statement, <<"IF", " ">>)
        THEN Strip(SubSeq(statement, 3, Len(statement)))
        ELSE IF StartsWith(statement, <<"ELSIF", " ">>)
        THEN Strip(SubSeq(statement, 3, Len(statement)))
        ELSE statement

RECURSIVE UpToSemicolon(_)
\* the shortest piece of text that ends before a ";" or at the end
UpToSemicolon(text) ==
    IF Len(text) = 0 \/ Head(text) = ";" THEN <<>>
    ELSE <<Head(text)>> \o UpToSemicolon(Tail(text))

RECURSIVE IndexOf(_, _, _)
\* the first index from i on where text has the atom, 0 if there is none
IndexOf(text, atom, i) ==
    IF i > Len(text) THEN 0
    ELSE IF text[i] = atom THEN i ELSE IndexOf(text, atom, i + 1)

\* re.search(r':=\s*(.+?)(?:;|$)', statement): group 1 stripped, None if no match
_extract_actuation_value(act_node) ==
    LET statement == act_node.statement
        at == IndexOf(statement, ":=", 1)
        rest == IF at = 0 THEN <<>>
                ELSE LStrip(SubSeq(statement, at + 1, Len(statement)))
    IN  IF Len(rest) = 0 THEN <<>>
        ELSE Strip(<<Head(rest)>> \o UpToSemicolon(Tail(rest)))

_format_assignment(node) == Strip(Replace(node.statement, <<";">>, <<>>))

ControlPredecessors(g, node_id) == get_predecessors(g, node_id, "control")

\* the ids of the nodes that satisfy Test, in the order of pdg.nodes
SelectNodes(g, Test(_)) ==
    LET T(i) == Test(g.nodes[i])
        idx == SelectIndices(Len(g.nodes), T)
    IN  [k \in 1..Len(idx) |-> g.nodes[idx[k]].id]

RoleOf(table, var) == IF var \in DOMAIN table THEN table[var] ELSE "undeclared"

\* a Pass A that does not skip the writes of the state variable
IsStateInvariantNode_AnyWriter(g, table, state_var, node) ==
    /\ node.statement_type = "assignment"
    /\ \E var \in node.variables_written : RoleOf(table, var) = "actuation"
    /\ Len(ControlPredecessors(g, node.id)) = 0

\* the nodes Pass A makes a template for
IsStateInvariantNode(g, table, state_var, node) ==
    /\ node.statement_type = "assignment"
    /\ ~ (state_var # None /\ state_var \in node.variables_written)
    /\ \E var \in node.variables_written : RoleOf(table, var) = "actuation"
    /\ Len(ControlPredecessors(g, node.id)) = 0

StateInvariant(g, node) ==
    LET var == CHOOSE v \in node.variables_written : TRUE
        value == _extract_actuation_value(node)
    IN  [InvariantTemplate("single", node.id) EXCEPT
            !.id = <<"state_", g.state_id, "_", var>>,
            !.state_id = g.state_id,
            !.variables = <<var>>,
            !.structure = <<"In", " ", "State", " ", g.state_id, ",", " ", var, " ", "=", " ">>
                          \o value,
            !.sensing_var = "STATE",
            !.actuation_var = var,
            !.operator = "=",
            !.actuation_value = value]

_extract_state_invariants(g, table, state_var) ==
    LET Test(node) == IsStateInvariantNode(g, table, state_var, node)
        ids == SelectNodes(g, Test)
    IN  [k \in 1..Len(ids) |-> StateInvariant(g, NodeOf(g, ids[k]))]

(***************************************************************************)
(* Pass B: inter-state transitions.                                        *)
(***************************************************************************)
\* the conjunct the walk adds for a control parent
GuardPart(parent_node) ==
    LET part_expr == _extract_condition_expression(parent_node)
    IN  IF Len(part_expr) = 0 THEN <<>> ELSE <<(<<"(">> \o part_expr \o <<")">>)>>

RECURSIVE WalkUp_InnermostFirst(_, _, _, _)
\* a walk that appends each parent's conjunct instead of inserting it in front
WalkUp_InnermostFirst(g, current_node_id, condition_parts, cond_vars) ==
    LET control_preds == ControlPredecessors(g, current_node_id)
    IN  IF Len(control_preds) = 0
        THEN [condition_parts |-> condition_parts, cond_vars |-> cond_vars]
        ELSE LET parent_node == NodeOf(g, control_preds[1])
             IN  WalkUp_InnermostFirst(g, parent_node.id,
                        condition_parts \o GuardPart(parent_node),
                        cond_vars \cup parent_node.variables_read)

RECURSIVE WalkUp(_, _, _, _)
\* the loop up the chain of control predecessors
WalkUp(g, current_node_id, condition_parts, cond_vars) ==
    LET control_preds == ControlPredecessors(g, current_node_id)
    IN  IF Len(control_preds) = 0
        THEN [condition_parts |-> condition_parts, cond_vars |-> cond_vars]
        ELSE LET parent_node == NodeOf(g, control_preds[1])
             IN  WalkUp(g, parent_node.id,
                        GuardPart(parent_node) \o condition_parts,
                        cond_vars \cup parent_node.variables_read)

InterStateInvariant(g, state_var, node, order) ==
    LET target_state == _extract_actuation_value(node)
        walk == WalkUp(g, node.id, <<>>, {})
        condition_str == IF Len(walk.condition_parts) > 0
                         THEN Join(<<" ", "AND", " ">>, walk.condition_parts)
                         ELSE <<"TRUE">>
        cond_vars_list == IterateSet(walk.cond_vars, order)
    IN  [InvariantTemplate("inter", node.id) EXCEPT
            !.id = <<"inter_", g.state_id, "_to_">> \o target_state,
            !.state_id = g.state_id,
            !.variables = <<state_var>> \o cond_vars_list,
            !.structure = <<"IF", " ">> \o condition_str
                          \o <<" ", "THEN", " ", state_var, " ", ":=", " ">>
                          \o target_state,
            !.source_state = g.state_id,
            !.dest_state = target_state,
            !.transition_condition = condition_str,
            !.state_variable = state_var,
            !.condition_variables = cond_vars_list]

_extract_inter_state_invariants(g, state_var, order) ==
    LET Test(node) == /\ state_var \in node.variables_written
                      /\ Len(_extract_actuation_value(node)) > 0
        ids == SelectNodes(g, Test)
    IN  [k \in 1..Len(ids) |-> InterStateInvariant(g, state_var, NodeOf(g, ids[k]), order)]

(***************************************************************************)
(* Pass C: per-actuation conditional rules.                                *)
(***************************************************************************)
IsActuationNode(table, node) ==
    \E var \in node.variables_written : RoleOf(table, var) = "actuation"

_find_actuation_nodes(g, table) ==
    LET Test(node) == IsActuationNode(table, node)
    IN  SelectNodes(g, Test)

ComparisonTags ==
    {"less_or_equal", "greater_or_equal", "less_than", "greater_than", "equals",
     "not_equal"}

RECURSIVE _contains_variable(_, _)
_contains_variable(node, search_var) ==
    IF node.tag = "" THEN node.text = search_var
    ELSE \/ /\ node.tag = "variable_name"
            /\ \E i \in 1..Len(node.kids) :
                   node.kids[i].tag = "" /\ node.kids[i].text = search_var
         \/ \E i \in 1..Len(node.kids) : _contains_variable(node.kids[i], search_var)

\* the operands a comparison node holds: the children of the node
ComparisonHolds(node, var) == _contains_variable(node, var)

RECURSIVE FindOperator(_, _)
RECURSIVE FindOperatorInList(_, _)
\* traverse(node): the operator found in the subtree, None if none is
FindOperator(node, var) ==
    IF node.tag = "" THEN None
    ELSE IF node.tag \in ComparisonTags /\ ComparisonHolds(node, var)
         THEN operator_map(node.tag)
    ELSE FindOperatorInList(node.kids, var)
FindOperatorInList(kids, var) ==
    IF Len(kids) = 0 THEN None
    ELSE LET found == FindOperator(Head(kids), var)
         IN  IF found # None THEN found ELSE FindOperatorInList(Tail(kids), var)

_extract_operator_for_variable(cond_node, var) ==
    IF cond_node.ast_node = NoTree THEN None ELSE FindOperator(cond_node.ast_node, var)

SingleVariableInvariant(g, act_node, act_var, var, operator) ==
    LET actuation_value == _extract_actuation_value(act_node)
    IN  [InvariantTemplate("single", act_node.id) EXCEPT
            !.id = <<"single_", g.state_id, "_", var, "_", act_var>>,
            !.state_id = g.state_id,
            !.variables = <<var, act_var>>,
            !.structure = <<"IF", " ", var, " ", operator, " ", "[#]", " ", "THEN",
                            " ", act_var, " ", "=", " ">> \o actuation_value,
            !.sensing_var = var,
            !.actuation_var = act_var,
            !.operator = operator,
            !.actuation_value = actuation_value]

\* the templates for one control predecessor: the loop over the variables it reads
SingleInvariantsOfCondition(g, table, act_node, act_var, cond_node, order) ==
    LET reads == IterateSet(cond_node.variables_read, order)
        Emits(i) == /\ RoleOf(table, reads[i]) = "sensing"
                    /\ _extract_operator_for_variable(cond_node, reads[i]) # None
        idx == SelectIndices(Len(reads), Emits)
    IN  IF cond_node.statement_type # "condition" THEN <<>>
        ELSE [k \in 1..Len(idx) |->
                SingleVariableInvariant(g, act_node, act_var, reads[idx[k]],
                    _extract_operator_for_variable(cond_node, reads[idx[k]]))]

RECURSIVE Flatten(_)
Flatten(lists) ==
    IF Len(lists) = 0 THEN <<>> ELSE Head(lists) \o Flatten(Tail(lists))

_extract_single_variable_invariants(g, table, act_node_id, act_var, order) ==
    LET act_node == NodeOf(g, act_node_id)
        control_predecessors == ControlPredecessors(g, act_node_id)
    IN  Flatten([k \in 1..Len(control_predecessors) |->
            SingleInvariantsOfCondition(g, table, act_node, act_var,
                NodeOf(g, control_predecessors[k]), order)])

\* list plus the elements of more that it lacks, in order
RECURSIVE AppendNew(_, _)
AppendNew(list, more) ==
    IF Len(more) = 0 THEN list
    ELSE AppendNew(IF \E i \in 1..Len(list) : list[i] = Head(more)
                   THEN list ELSE Append(list, Head(more)),
                   Tail(more))

\* the variables of the role among those the node reads, in iteration order
ReadsOfRole(table, node, role, order) ==
    LET reads == IterateSet(node.variables_read, order)
        Is(i) == RoleOf(table, reads[i]) = role
        idx == SelectIndices(Len(reads), Is)
    IN  [k \in 1..Len(idx) |-> reads[idx[k]]]

\* a search that follows the control edges only
DfsPredecessors_ControlOnly(g, node_id) == get_predecessors(g, node_id, "control")

\* the predecessors the search pushes: those over control and data edges
DfsPredecessors(g, node_id) == get_predecessors(g, node_id, None)

RECURSIVE BackwardDfs(_, _, _, _, _, _, _)
\* the loop over the stack to_visit
BackwardDfs(g, table, order, to_visit, visited, sensing_vars, config_vars) ==
    IF Len(to_visit) = 0
    THEN [sensing_vars |-> sensing_vars, config_vars |-> config_vars, visited |-> visited]
    ELSE LET node_id == to_visit[Len(to_visit)]
             popped == SubSeq(to_visit, 1, Len(to_visit) - 1)
             node == NodeOf(g, node_id)
         IN  IF node_id \in visited
             THEN BackwardDfs(g, table, order, popped, visited, sensing_vars, config_vars)
             ELSE BackwardDfs(g, table, order,
                      popped \o DfsPredecessors(g, node_id),
                      visited \cup {node_id},
                      AppendNew(sensing_vars, ReadsOfRole(table, node, "sensing", order)),
                      AppendNew(config_vars,
                                ReadsOfRole(table, node, "configuration", order)))

MultiVariableInvariant(g, act_node, act_var, sensing_vars, config_vars) ==
    LET control_predecessors == ControlPredecessors(g, act_node.id)
        condition_str ==
            IF Len(control_predecessors) > 0
            THEN _extract_condition_expression(NodeOf(g, control_predecessors[1]))
            ELSE <<>>
        action_str == _format_assignment(act_node)
    IN  [InvariantTemplate("multi", act_node.id) EXCEPT
            !.id = <<"multi_", g.state_id, "_", act_var>>,
            !.state_id = g.state_id,
            !.variables = sensing_vars \o config_vars \o <<act_var>>,
            !.structure = <<"IF", " ">> \o condition_str \o <<" ", "THEN", " ">>
                          \o action_str,
            !.sensing_vars = sensing_vars,
            !.configuration_vars = config_vars,
            !.actuation_var = act_var,
            !.condition = condition_str,
            !.action = action_str]

\* the list of zero or one multi templates of the node
_extract_multi_variable_invariant(g, table, act_node_id, act_var, order) ==
    LET dfs == BackwardDfs(g, table, order, <<act_node_id>>, {}, <<>>, <<>>)
    IN  IF Len(dfs.sensing_vars) = 0 /\ Len(dfs.config_vars) = 0 THEN <<>>
        ELSE <<MultiVariableInvariant(g, NodeOf(g, act_node_id), act_var,
                                      dfs.sensing_vars, dfs.config_vars)>>

\* the body of the loop over the actuation nodes
ActuationNodeTemplates(g, table, state_var, act_node_id, order) ==
    LET act_node == NodeOf(g, act_node_id)
        written == IterateSet(act_node.variables_written, order)
    IN  IF state_var # None /\ state_var \in act_node.variables_written THEN <<>>
        ELSE IF Len(written) = 0 THEN <<>>
        ELSE _extract_single_variable_invariants(g, table, act_node_id, written[1], order)
             \o _extract_multi_variable_invariant(g, table, act_node_id, written[1], order)

extract_all_templates(g, table, state_var, order) ==
    LET actuation_nodes == _find_actuation_nodes(g, table)
    IN  _extract_state_invariants(g, table, state_var)
        \o (IF state_var # None
            THEN _extract_inter_state_invariants(g, state_var, order) ELSE <<>>)
        \o Flatten([k \in 1..Len(actuation_nodes) |->
              ActuationNodeTemplates(g, table, state_var, actuation_nodes[k], order)])

(***************************************************************************)
(* The pipeline for one arm: parse, build_pdg_for_state (node creation,    *)
(* control dependencies, data dependencies), extract_all_templates.        *)
(***************************************************************************)
StateId == "10"

\* the variable tables: st declared in VAR (role internal) or in VAR_OUTPUT
VariableTables ==
    { [v \in Names |->
         CASE v = "H_Sensor" -> "sensing"
           [] v \in {"H_Target", "H_Offset"} -> "configuration"
           [] v = "H_Actuator" -> "actuation"
           [] v = "st" -> st_role
           [] OTHER -> "internal"] : st_role \in {"internal", "actuation"} }

Init ==
    /\ source \in Programs
    /\ variables \in VariableTables
    /\ state_variable = "st"
    /\ hash_order = <<>>
    /\ ast = NoTree
    /\ pdg = ProgramDependencyGraph(StateId)
    /\ templates = <<>>
    /\ pc = "source"
    /\ ClassifierIdle
    /\ ParserIdle

\* parse: the tree of the arm
Parse ==
    /\ pc = "source"
    /\ ast' = case_element(StateId, source)
    /\ pc' = "parsed"
    /\ UNCHANGED <<source, variables, state_variable, hash_order, pdg, templates>>
    /\ UNCHANGED <<classifierVars, parserVars>>

\* build_pdg_for_state, step 1 (an arm without statements returns the empty PDG)
CreateNodes ==
    /\ pc = "parsed"
    /\ LET statement_list0 == _extract_statement_list(ast)
       IN  IF Len(statement_list0) = 0
           THEN pdg' = pdg /\ pc' = "built"
           ELSE /\ pdg' = _create_nodes_from_statements(pdg, statement_list0)
                /\ pc' = "nodes"
    /\ UNCHANGED <<source, variables, state_variable, hash_order, ast, templates>>
    /\ UNCHANGED <<classifierVars, parserVars>>

\* build_pdg_for_state, step 2
AddControlDependencies ==
    /\ pc = "nodes"
    /\ pdg' = _add_control_dependencies(pdg)
    /\ pc' = "control"
    /\ UNCHANGED <<source, variables, state_variable, hash_order, ast, templates>>
    /\ UNCHANGED <<classifierVars, parserVars>>

\* build_pdg_for_state, step 3
AddDataDependencies ==
    /\ pc = "control"
    /\ \E order \in HashOrders :
         /\ hash_order' = order
         /\ pdg' = _add_data_dependencies(pdg, order)
    /\ pc' = "built"
    /\ UNCHANGED <<source, variables, state_variable, ast, templates>>
    /\ UNCHANGED <<classifierVars, parserVars>>

\* extract_all_templates (an arm without statements has picked no order yet)
ExtractAllTemplates ==
    /\ pc = "built"
    /\ \E order \in (IF hash_order = <<>> THEN HashOrders ELSE {hash_order}) :
         /\ hash_order' = order
         /\ templates' = extract_all_templates(pdg, variables, state_variable, order)
    /\ pc' = "done"
    /\ UNCHANGED <<source, variables, state_variable, ast, pdg>>
    /\ UNCHANGED <<classifierVars, parserVars>>

Next ==
    \/ Parse
    \/ CreateNodes
    \/ AddControlDependencies
    \/ AddDataDependencies
    \/ ExtractAllTemplates

Spec == Init /\ [][Next]_vars


(***************************************************************************)
(* The source program as reference: its statements in source order, each   *)
(* with the IF branches that enclose it (outermost first), the variables   *)
(* and the text of an expression as written.                               *)
(***************************************************************************)
Branch(s, cond, branch) == [pos |-> s.pos, e |-> cond, branch |-> branch]

RECURSIVE FlatStmts(_, _)
RECURSIVE FlatElsifs(_, _, _)
FlatStmts(stmts, enc) ==
    IF Len(stmts) = 0 THEN <<>>
    ELSE LET s == Head(stmts)
         IN  <<[s |-> s, enc |-> enc]>>
             \o (IF s.k = "if"
                 THEN FlatStmts(s.then, Append(enc, Branch(s, s.e, "then")))
                      \o FlatElsifs(s.elsifs, s, enc)
                      \o FlatStmts(s.else, Append(enc, Branch(s, s.e, "else")))
                 ELSE <<>>)
             \o FlatStmts(Tail(stmts), enc)
FlatElsifs(elsifs, s, enc) ==
    IF Len(elsifs) = 0 THEN <<>>
    ELSE FlatStmts(Head(elsifs).body, Append(enc, Branch(s, Head(elsifs).e, "elsif")))
         \o FlatElsifs(Tail(elsifs), s, enc)

\* SourceStatements[p] is the statement at position p
SourceStatements == FlatStmts(source, <<>>)

\* the source statement a PDG node was made from
SourceOf(node) == SourceStatements[node.ast_node.pos]

RECURSIVE SourceVars(_)
\* the variable names that appear in an expression as written
SourceVars(items) ==
    IF Len(items) = 0 THEN {}
    ELSE (CASE Head(items).k = "var" -> {Head(items).t}
            [] Head(items).k = "paren" -> SourceVars(Head(items).sub)
            [] OTHER -> {})
         \cup SourceVars(Tail(items))

\* the literal each operator rule of the grammar matches
GrammarLiteral(rule) ==
    CASE rule = "equals" -> "="
      [] rule = "equals_not" -> "<>"
      [] rule = "less_or_equal" -> "<="
      [] rule = "greater_or_equal" -> ">="
      [] rule = "less_than" -> "<"
      [] rule = "greater_than" -> ">"
      [] rule = "adding" -> "+"
      [] rule = "subtracting" -> "-"
      [] rule = "multiply_with" -> "*"
      [] rule = "divide_by" -> "/"
      [] rule = "logical_or" -> "OR"
      [] rule = "logical_xor" -> "XOR"
      [] rule = "logical_and" -> "AND"
      [] rule = "logical_not" -> "NOT"
      [] rule = "modulo" -> "MOD"

RECURSIVE SourceText(_)
\* an expression as written, its tokens one blank apart
SourceText(items) ==
    LET ItemText(it) == CASE it.k = "op" -> <<GrammarLiteral(it.t)>>
                          [] it.k = "paren" -> <<"(">> \o SourceText(it.sub) \o <<")">>
                          [] OTHER -> <<it.t>>
    IN  Join(<<" ">>, [i \in 1..Len(items) |-> ItemText(items[i])])

\* the printed form of a condition of the source
Printed(cond) == _format_expression_ast(expression(cond))

BuiltStages == {"built", "done"}

AssignmentNodes == { i \in 1..Len(pdg.nodes) : pdg.nodes[i].statement_type = "assignment" }

(***************************************************************************)
(* Properties.                                                             *)
(***************************************************************************)
\* the PDG after node creation alone, with every cascaded control edge
CascadedPdg ==
    _create_nodes_from_statements(ProgramDependencyGraph(StateId),
                                  _extract_statement_list(ast))

\* C1: once the control edges are pruned (and so when build_pdg_for_state
\* has finished), every node of the PDG has at most one control
\* predecessor, whatever the nesting of IF and ELSE blocks.
C1_AtMostOneControlPredecessor ==
    pc \in {"control", "built", "done"} =>
        \A id \in NodeIds(pdg) : Len(ControlPredecessors(pdg, id)) <= 1

\* C1 witness: a finished PDG with a node that three conditions had a
\* cascaded edge to, one of them through an ELSE block, and that has kept one
C1_Witness ==
    /\ pc = "built"
    /\ \E id \in NodeIds(pdg) :
         /\ Len(ControlPredecessors(CascadedPdg, id)) >= 3
         /\ \E i \in 1..Len(CascadedPdg.edges) :
                /\ CascadedPdg.edges[i].to_node = id
                /\ CascadedPdg.edges[i].label = "else"
         /\ Len(ControlPredecessors(pdg, id)) = 1

DataEdges == { i \in 1..Len(pdg.edges) : pdg.edges[i].edge_type = "data" }

\* C2: every data edge d -> u on variable v has v written by d, v read by
\* u, d.id < u.id, and no node between d and u that writes v.
C2_DataEdgeFromLastWriter ==
    pc \in BuiltStages =>
        \A i \in DataEdges :
            LET e == pdg.edges[i]
                d == NodeOf(pdg, e.from_node)
                u == NodeOf(pdg, e.to_node)
            IN  /\ e.variable \in d.variables_written
                /\ e.variable \in u.variables_read
                /\ d.id < u.id
                /\ \A m \in NodeIds(pdg) :
                       d.id < m /\ m < u.id =>
                           e.variable \notin NodeOf(pdg, m).variables_written

\* C2 witness: a data edge whose variable has an earlier writer than its source
C2_Witness ==
    /\ pc = "built"
    /\ \E i \in DataEdges :
         \E m \in NodeIds(pdg) :
             /\ m < pdg.edges[i].from_node
             /\ pdg.edges[i].variable \in NodeOf(pdg, m).variables_written

\* C3: the node of an assignment x := expr writes {x} and reads exactly the
\* variable names that appear in expr (none if expr is a literal).
C3_AssignmentReadsRhsVariables ==
    pc \in BuiltStages =>
        \A i \in AssignmentNodes :
            LET node == pdg.nodes[i]
            IN  /\ node.variables_written = {SourceOf(node).s.lhs}
                /\ node.variables_read = SourceVars(SourceOf(node).s.e)

ConditionNodes == { i \in 1..Len(pdg.nodes) : pdg.nodes[i].statement_type = "condition" }

\* the node made from the statement at a position of the source, if there is one
NodesAt(g, pos) == { id \in NodeIds(g) : NodeOf(g, id).ast_node.pos = pos }

\* C4: for an IF statement with ELSIF branches the builder makes, for each
\* ELSIF, a condition node for the ELSIF expression and nodes for the
\* statements of its list, with a control edge labelled elsif from the
\* condition node to each of them.
C4_ElsifBranchesHaveNodes ==
    pc \in BuiltStages =>
        \A p \in 1..Len(SourceStatements) :
            LET s == SourceStatements[p].s
            IN  (s.k = "if" /\ NodesAt(pdg, p) # {}) =>
                    \A j \in 1..Len(s.elsifs) :
                        \E c \in ConditionNodes :
                            /\ pdg.nodes[c].statement
                                   = <<"ELSIF", " ">> \o Printed(s.elsifs[j].e)
                            /\ \A k \in 1..Len(s.elsifs[j].body) :
                                   \E m \in NodesAt(pdg, s.elsifs[j].body[k].pos) :
                                       \E e \in 1..Len(CascadedPdg.edges) :
                                           CascadedPdg.edges[e]
                                               = PDGEdge(pdg.nodes[c].id, m, "control",
                                                         None, "elsif")

\* the first comparison of an expression as written, at its top level
RECURSIVE TopComparison(_)
TopComparison(items) ==
    IF Len(items) = 0 THEN None
    ELSE IF Head(items).k = "op"
            /\ Head(items).t \in {"equals", "equals_not", "less_or_equal",
                                  "greater_or_equal", "less_than", "greater_than"}
         THEN Head(items).t
    ELSE TopComparison(Tail(items))

\* the indices of the templates of a type made for a node
TemplatesOf(type, node_id) ==
    { i \in 1..Len(templates) :
        templates[i].type = type /\ templates[i].node = node_id }

\* the nodes Pass C works on: writers of an actuation variable, the writers
\* of the state variable left out
ActuationWriters ==
    { i \in 1..Len(pdg.nodes) :
        /\ \E v \in pdg.nodes[i].variables_written : RoleOf(variables, v) = "actuation"
        /\ state_variable \notin pdg.nodes[i].variables_written }

\* C5: for every node n that writes an actuation variable a (not the state
\* variable), every immediate control predecessor c of n and every sensing
\* variable s read by c that is an operand of a comparison of c's condition,
\* there is exactly one single template IF s op [#] THEN a = value, op the
\* symbol of that comparison.
C5_SingleTemplatePerSensingOperand ==
    pc = "done" =>
        \A i \in ActuationWriters :
            LET n == pdg.nodes[i]
                preds == ControlPredecessors(pdg, n.id)
            IN  \A k \in 1..Len(preds) :
                    LET c == NodeOf(pdg, preds[k])
                        cond == SourceOf(c).s.e
                    IN  \A s \in c.variables_read :
                            (/\ RoleOf(variables, s) = "sensing"
                             /\ s \in SourceVars(cond)
                             /\ TopComparison(cond) # None) =>
                                \E t \in TemplatesOf("single", n.id) :
                                    /\ templates[t].sensing_var = s
                                    /\ templates[t].structure
                                         = <<"IF", " ", s, " ",
                                             GrammarLiteral(TopComparison(cond)), " ",
                                             "[#]", " ", "THEN", " ",
                                             SourceOf(n).s.lhs, " ", "=", " ">>
                                            \o Printed(SourceOf(n).s.e)
                                    /\ \A u \in TemplatesOf("single", n.id) :
                                           templates[u].sensing_var = s => u = t

\* the nodes that write the state variable
StateWriters ==
    { i \in 1..Len(pdg.nodes) : state_variable \in pdg.nodes[i].variables_written }

\* the conditions of the IF statements that enclose a node's statement, each
\* printed and parenthesised, the outermost first
EnclosingConjuncts(node) ==
    LET enc == SourceOf(node).enc
    IN  [j \in 1..Len(enc) |-> <<"(">> \o Printed(enc[j].e) \o <<")">>]

Outcomes(enc) == [ { enc[j].pos : j \in 1..Len(enc) } -> BOOLEAN ]

\* the statement runs: every enclosing IF took the branch the statement is in
Executes(enc, outcome) ==
    \A j \in 1..Len(enc) :
        CASE enc[j].branch = "then" -> outcome[enc[j].pos]
          [] enc[j].branch = "else" -> ~ outcome[enc[j].pos]
          [] OTHER -> FALSE

\* C7: in every run of the arm in which a state write executes, each
\* conjunct of its inter template's transition_condition is true, for a
\* write in a THEN block and for a write in an ELSE block.
C7_GuardHoldsWhenWriteExecutes ==
    pc = "done" =>
        \A i \in StateWriters :
            LET node == pdg.nodes[i]
                enc == SourceOf(node).enc
                parts == EnclosingConjuncts(node)
            IN  \A t \in TemplatesOf("inter", node.id) :
                    \A j \in 1..Len(enc) :
                        Contains(templates[t].transition_condition, parts[j]) =>
                            \A outcome \in Outcomes(enc) :
                                Executes(enc, outcome) => outcome[enc[j].pos]

\* the templates of Pass A made for a node
StateTemplatesOf(node_id) ==
    { t \in TemplatesOf("single", node_id) : templates[t].sensing_var = "STATE" }

\* the node has an incoming control edge
HasControlEdge(node_id) ==
    \E e \in 1..Len(pdg.edges) :
        pdg.edges[e].to_node = node_id /\ pdg.edges[e].edge_type = "control"

\* the text after ":=" in a statement
TextAfterAssign(statement) ==
    Strip(SubSeq(statement, IndexOf(statement, ":=", 1) + 1, Len(statement)))

\* C8: Pass A makes a template (sensing_var STATE, operator "=", structure
\* In State {state_id}, {v} = {value}) for exactly the assignment nodes that
\* write an actuation variable v, have no control predecessor and do not
\* write the state variable, value being the text after := in the node's
\* statement; every template with sensing_var STATE is one of these.
C8_StateTemplatesForUncontrolledActuation ==
    pc = "done" =>
        /\ \A t \in 1..Len(templates) :
               templates[t].sensing_var = "STATE" =>
                   /\ templates[t].type = "single"
                   /\ templates[t].node \in NodeIds(pdg)
        /\ \A i \in 1..Len(pdg.nodes) :
               LET node == pdg.nodes[i]
                   v == SourceOf(node).s.lhs
                   emits == /\ node.statement_type = "assignment"
                            /\ RoleOf(variables, v) = "actuation"
                            /\ ~ HasControlEdge(node.id)
                            /\ v # state_variable
               IN  /\ Cardinality(StateTemplatesOf(node.id)) = IF emits THEN 1 ELSE 0
                   /\ \A t \in StateTemplatesOf(node.id) :
                          /\ templates[t].operator = "="
                          /\ templates[t].actuation_var = v
                          /\ templates[t].actuation_value = TextAfterAssign(node.statement)
                          /\ templates[t].structure
                               = <<"In", " ", "State", " ", StateId, ",", " ", v, " ",
                                   "=", " ">> \o TextAfterAssign(node.statement)
                          /\ TextAfterAssign(node.statement) = Printed(SourceOf(node).s.e)

\* C8 witness: the state variable has the role actuation; one arm has an
\* uncontrolled actuation write with its template, an uncontrolled write of
\* the state variable and a controlled actuation write, both without one
C8_Witness ==
    /\ pc = "done"
    /\ RoleOf(variables, state_variable) = "actuation"
    /\ \E i \in ActuationWriters :
         /\ ~ HasControlEdge(pdg.nodes[i].id)
         /\ Cardinality(StateTemplatesOf(pdg.nodes[i].id)) = 1
    /\ \E i \in StateWriters :
         /\ ~ HasControlEdge(pdg.nodes[i].id)
         /\ StateTemplatesOf(pdg.nodes[i].id) = {}
    /\ \E i \in ActuationWriters :
         /\ HasControlEdge(pdg.nodes[i].id)
         /\ StateTemplatesOf(pdg.nodes[i].id) = {}

RECURSIVE ReachableBackward(_)
\* the nodes from which a set of nodes is reached over control and data edges
ReachableBackward(ids) ==
    LET more == ids \cup { pdg.edges[e].from_node :
                             e \in { x \in 1..Len(pdg.edges) : pdg.edges[x].to_node \in ids } }
    IN  IF more = ids THEN ids ELSE ReachableBackward(more)

\* the variables of a role read by some node of a set
ReadWithRole(ids, role) ==
    { v \in UNION { NodeOf(pdg, id).variables_read : id \in ids } :
        RoleOf(variables, v) = role }

\* a list without duplicates whose elements are those of the set
ListsExactly(list, a_set) ==
    /\ { list[k] : k \in 1..Len(list) } = a_set
    /\ Len(list) = Cardinality(a_set)

\* the printed condition of the innermost IF around a node's statement
InnermostCondition(node) ==
    LET enc == SourceOf(node).enc
    IN  IF Len(enc) = 0 THEN <<>> ELSE Printed(enc[Len(enc)].e)

\* C9: a node n that writes an actuation variable (not the state variable)
\* has a multi template if and only if some node backward-reachable from n
\* over control and data edges, n included, reads a sensing or configuration
\* variable; the template's sensing_vars and configuration_vars list exactly
\* those variables without duplicates, its condition is the condition text
\* of n's immediate control predecessor (empty if none) and its structure
\* is IF {condition} THEN {action}.
C9_MultiTemplateOverBackwardSlice ==
    pc = "done" =>
        \A i \in ActuationWriters :
            LET n == pdg.nodes[i]
                slice == ReachableBackward({n.id})
                sensing == ReadWithRole(slice, "sensing")
                config == ReadWithRole(slice, "configuration")
                action == <<SourceOf(n).s.lhs, " ", ":=", " ">> \o Printed(SourceOf(n).s.e)
            IN  /\ Cardinality(TemplatesOf("multi", n.id))
                     = IF sensing \cup config # {} THEN 1 ELSE 0
                /\ \A t \in TemplatesOf("multi", n.id) :
                       /\ ListsExactly(templates[t].sensing_vars, sensing)
                       /\ ListsExactly(templates[t].configuration_vars, config)
                       /\ templates[t].condition = InnermostCondition(n)
                       /\ templates[t].action = action
                       /\ templates[t].structure
                            = <<"IF", " ">> \o InnermostCondition(n)
                              \o <<" ", "THEN", " ">> \o action

\* C9 witness: an actuation write without control predecessor whose template
\* lists a sensing variable that only a data predecessor reads, and an
\* actuation write under a condition without any template
C9_Witness ==
    /\ pc = "done"
    /\ \E i \in ActuationWriters :
         LET n == pdg.nodes[i]
         IN  /\ ~ HasControlEdge(n.id)
             /\ ReadWithRole({n.id}, "sensing") = {}
             /\ \E t \in TemplatesOf("multi", n.id) :
                    /\ templates[t].sensing_vars = <<"H_Sensor">>
                    /\ templates[t].condition = <<>>
    /\ \E i \in ActuationWriters :
         /\ HasControlEdge(pdg.nodes[i].id)
         /\ TemplatesOf("multi", pdg.nodes[i].id) = {}

\* the parenthesised sub-expressions of an expression as written
ParenItems(items) == { k \in 1..Len(items) : items[k].k = "paren" }

\* C10: the condition text of a multi template keeps the parenthesised
\* sub-expressions of the condition as written, parentheses included
\* (for IF H_Sensor <= (H_Target + H_Offset) the text (H_Target + H_Offset)).
C10_PrintedConditionKeepsParentheses ==
    pc = "done" =>
        \A i \in ActuationWriters :
            LET n == pdg.nodes[i]
                enc == SourceOf(n).enc
            IN  Len(enc) > 0 =>
                    \A t \in TemplatesOf("multi", n.id) :
                        \A k \in ParenItems(enc[Len(enc)].e) :
                            Contains(templates[t].structure,
                                     <<"(">> \o SourceText(enc[Len(enc)].e[k].sub)
                                     \o <<")">>)

(***************************************************************************)
(* The expression printer on every operator of the grammar: the arm        *)
(* IF a OP b THEN H_Actuator := FALSE; END_IF; (IF NOT a ... for NOT),     *)
(* taken through the same pipeline.                                        *)
(***************************************************************************)
\* the rules of the operators <=, >=, <, >, =, <>, +, -, *, /, AND, OR, MOD
BinaryOperatorRules ==
    {"less_or_equal", "greater_or_equal", "less_than", "greater_than", "equals",
     "equals_not", "adding", "subtracting", "multiply_with", "divide_by",
     "logical_and", "logical_or", "modulo"}

OperatorOperands == {V("H_Sensor"), V("tmp"), I("100")}

OperatorConds ==
    { <<a, O(rule), b>> : a \in OperatorOperands \ {I("100")},
                          rule \in BinaryOperatorRules,
                          b \in OperatorOperands }
    \cup { <<O("logical_not"), a>> : a \in OperatorOperands \ {I("100")} }

OperatorPrograms ==
    { NumberList(<<If(cond, <<Asg("H_Actuator", <<B("FALSE")>>)>>, <<>>, <<>>)>>, 1) :
        cond \in OperatorConds }

OperatorInit ==
    /\ source \in OperatorPrograms
    /\ variables \in VariableTables
    /\ state_variable = "st"
    /\ hash_order = <<>>
    /\ ast = NoTree
    /\ pdg = ProgramDependencyGraph(StateId)
    /\ templates = <<>>
    /\ pc = "source"
    /\ ClassifierIdle
    /\ ParserIdle

OperatorSpec == OperatorInit /\ [][Next]_vars

\* C11: an expression a OP b (or NOT a) over one of the operators <=, >=,
\* <, >, =, <>, +, -, *, /, AND, OR, NOT, MOD is printed with the operator
\* symbol between (before) its operands, the tokens one blank apart.
C11_PrinterInsertsOperatorSymbol ==
    pc \in BuiltStages =>
        \A i \in ConditionNodes :
            pdg.nodes[i].statement
              = <<"IF", " ">> \o SourceText(SourceOf(pdg.nodes[i]).s.e)

(***************************************************************************)
(* VariableClassifier.  A name is a sequence of fragments (a letter, an    *)
(* underscore or a whole word), each fragment standing for its characters; *)
(* a regular expression of the pattern lists is its kind (a prefix, a      *)
(* suffix or a part of the name) and the fragments it looks for.           *)
(***************************************************************************)
\* number of fragments of a declared name
MaxNameParts == 3

NameParts ==
    {"L", "S", "_", "X", "Level", "Offset", "Limit", "Sensor", "Command", "target"}

DeclaredNames ==
    UNION { [1..n -> NameParts] : n \in 1..MaxNameParts }

Scopes == {"input", "output", "var"}

\* str.lower on one fragment
LowerPart(part) ==
    CASE part = "L" -> "l"
      [] part = "S" -> "s"
      [] part = "X" -> "x"
      [] part = "Level" -> "level"
      [] part = "Offset" -> "offset"
      [] part = "Limit" -> "limit"
      [] part = "Sensor" -> "sensor"
      [] part = "Command" -> "command"
      [] OTHER -> part

Lower(name) == [k \in 1..Len(name) |-> LowerPart(name[k])]

Anywhere(word) == [kind |-> "contains", word |-> word]
AtEnd(word) == [kind |-> "suffix", word |-> word]
AtStart(word) == [kind |-> "prefix", word |-> word]

SENSING_PATTERNS ==
    <<Anywhere(<<"sensor">>), AtEnd(<<"_", "sensor">>), Anywhere(<<"input">>),
      AtStart(<<"l", "_">>), AtEnd(<<"level">>), AtEnd(<<"position">>),
      Anywhere(<<"_", "actual">>), AtEnd(<<"reading">>), AtEnd(<<"detected">>)>>

ACTUATION_PATTERNS ==
    <<AtStart(<<"s", "_">>), Anywhere(<<"actuator">>), AtEnd(<<"_", "actuator">>),
      AtEnd(<<"command">>), AtEnd(<<"_", "command">>), AtEnd(<<"output">>),
      Anywhere(<<"_", "start">>), AtEnd(<<"motor">>), AtEnd(<<"valve">>),
      AtEnd(<<"pump">>)>>

CONFIGURATION_PATTERNS ==
    <<Anywhere(<<"target">>), AtEnd(<<"_", "target">>), AtEnd(<<"level">>),
      AtEnd(<<"threshold">>), AtEnd(<<"offset">>), AtEnd(<<"_", "offset">>),
      AtEnd(<<"limit">>), AtEnd(<<"setpoint">>), AtEnd(<<"tolerance">>),
      AtEnd(<<"tol">>)>>

\* re.match(pattern, text, re.IGNORECASE) on a lower-case text
ReMatch(pattern, text) ==
    LET w == pattern.word
    IN  CASE pattern.kind = "contains" -> Contains(text, w)
          [] pattern.kind = "prefix" -> StartsWith(text, w)
          [] pattern.kind = "suffix" ->
                 /\ Len(text) >= Len(w)
                 /\ SubSeq(text, Len(text) - Len(w) + 1, Len(text)) = w

_matches_patterns(text, patterns) ==
    \E k \in 1..Len(patterns) : ReMatch(patterns[k], text)

\* a classifier that tries the configuration patterns first in scope var
classify_variable_ConfigurationFirst(name, in_scope) ==
    LET var_lower == Lower(name)
    IN  IF in_scope = "input"
        THEN IF _matches_patterns(var_lower, CONFIGURATION_PATTERNS)
             THEN "configuration" ELSE "sensing"
        ELSE IF in_scope = "output" THEN "actuation"
        ELSE IF _matches_patterns(var_lower, CONFIGURATION_PATTERNS) THEN "configuration"
        ELSE IF _matches_patterns(var_lower, SENSING_PATTERNS) THEN "sensing"
        ELSE IF _matches_patterns(var_lower, ACTUATION_PATTERNS) THEN "actuation"
        ELSE "internal"

classify_variable(name, in_scope) ==
    LET var_lower == Lower(name)
    IN  IF in_scope = "input"
        THEN IF _matches_patterns(var_lower, CONFIGURATION_PATTERNS)
             THEN "configuration" ELSE "sensing"
        ELSE IF in_scope = "output" THEN "actuation"
        ELSE IF _matches_patterns(var_lower, SENSING_PATTERNS) THEN "sensing"
        ELSE IF _matches_patterns(var_lower, ACTUATION_PATTERNS) THEN "actuation"
        ELSE IF _matches_patterns(var_lower, CONFIGURATION_PATTERNS) THEN "configuration"
        ELSE "internal"

PipelineIdle ==
    /\ source = <<>> /\ variables = <<>> /\ state_variable = None
    /\ hash_order = <<>> /\ ast = NoTree
    /\ pdg = ProgramDependencyGraph(StateId) /\ templates = <<>>

ClassifierInit ==
    /\ var_name \in DeclaredNames
    /\ scope \in Scopes
    /\ var_type = None
    /\ pc = "declared"
    /\ PipelineIdle
    /\ ParserIdle

\* extract_from_decl_section: the declared name gets its role
ClassifyVariable ==
    /\ pc = "declared"
    /\ var_type' = classify_variable(var_name, scope)
    /\ pc' = "classified"
    /\ UNCHANGED <<var_name, scope, pipelineVars, parserVars>>

ClassifierNext == ClassifyVariable

ClassifierSpec == ClassifierInit /\ [][ClassifierNext]_vars

\* the lower-case name matches some pattern of the list
NameMatches(patterns) == _matches_patterns(Lower(var_name), patterns)

\* the name ends with the fragment, whatever its case
NameEndsWith(word) ==
    LowerPart(var_name[Len(var_name)]) = word

\* C19: classify_variable gives scope output the role actuation; scope
\* input the role configuration if a configuration pattern matches, else
\* sensing; scope var the role sensing if a sensing pattern matches, else
\* actuation if an actuation pattern matches, else configuration if a
\* configuration pattern matches, else internal.  A name that ends in level
\* is sensing in scope var and configuration in scope input.
C19_ClassificationPriority ==
    pc = "classified" =>
        /\ scope = "output" => var_type = "actuation"
        /\ scope = "input" =>
               var_type = IF NameMatches(CONFIGURATION_PATTERNS)
                          THEN "configuration" ELSE "sensing"
        /\ scope = "var" =>
               /\ NameMatches(SENSING_PATTERNS) => var_type = "sensing"
               /\ (~ NameMatches(SENSING_PATTERNS) /\ NameMatches(ACTUATION_PATTERNS))
                      => var_type = "actuation"
               /\ (/\ ~ NameMatches(SENSING_PATTERNS)
                   /\ ~ NameMatches(ACTUATION_PATTERNS)
                   /\ NameMatches(CONFIGURATION_PATTERNS))
                      => var_type = "configuration"
               /\ (/\ ~ NameMatches(SENSING_PATTERNS)
                   /\ ~ NameMatches(ACTUATION_PATTERNS)
                   /\ ~ NameMatches(CONFIGURATION_PATTERNS))
                      => var_type = "internal"
        /\ NameEndsWith("level") =>
               /\ scope = "var" => var_type = "sensing"
               /\ scope = "input" => var_type = "configuration"

\* C19 witness: a name of scope var that ends in level, which the sensing
\* and the configuration patterns both match, classified sensing
C19_Witness ==
    /\ pc = "classified"
    /\ scope = "var"
    /\ var_name = <<"X", "_", "Level">>
    /\ NameMatches(SENSING_PATTERNS)
    /\ NameMatches(CONFIGURATION_PATTERNS)
    /\ var_type = "sensing"

\* the words the configuration patterns look for
ConfigurationWords == {"target", "offset", "limit", "level"}

\* C20: a name that contains, anywhere and in any case, one of the words
\* target, offset, threshold, limit, setpoint, tolerance, tol, level matches
\* the configuration patterns, and so is configuration in scope input
\* (Offset_X, Limit_High).
C20_ConfigurationWordAnywhere ==
    pc = "classified" =>
        ((\E k \in 1..Len(var_name) : LowerPart(var_name[k]) \in ConfigurationWords) =>
            /\ NameMatches(CONFIGURATION_PATTERNS)
            /\ scope = "input" => var_type = "configuration")

(***************************************************************************)
(* The parser engine (parser.py).  A text is a sequence of characters.  A   *)
(* pattern is a record: t is its Python type, name the __name__ of a       *)
(* function (its fragments, so that a leading underscore shows) or the     *)
(* kind of a regular expression, word the characters of a literal or of a  *)
(* regular expression, n a quantifier, items the members of a tuple or     *)
(* list, the object of a lookahead or the value a function returns.        *)
(* Positions are not recorded (output_pos is False in every call of the    *)
(* compiler), skip_ws is True and skip_comments is the comment pattern of  *)
(* the command line.                                                       *)
(***************************************************************************)
Pat(t, name, word, n, items) ==
    [t |-> t, name |-> name, word |-> word, n |-> n, items |-> items]

Str(word) == Pat("str", <<>>, word, 0, <<>>)
Keyword(word) == Pat("Keyword", <<>>, word, 0, <<>>)
_Not(obj) == Pat("_Not", <<>>, <<>>, 0, <<obj>>)
_And(obj) == Pat("_And", <<>>, <<>>, 0, <<obj>>)
Re(kind, word) == Pat("regex", <<kind>>, word, 0, <<>>)
Ignore(kind, word) == Pat("Ignore", <<kind>>, word, 0, <<>>)
Quantifier(n) == Pat("int", <<>>, <<>>, n, <<>>)
Sequence(items) == Pat("tuple", <<>>, <<>>, 0, items)
Choice(items) == Pat("list", <<>>, <<>>, 0, items)
Function(name, returns) == Pat("function", name, <<>>, 0, <<returns>>)

Whitespace == {" ", "\n"}

RangeOf(seq) == { seq[k] : k \in 1..Len(seq) }

\* the length of the longest prefix of the text made of the characters
RunLength(text, chars) ==
    IF \A i \in 1..Len(text) : text[i] \in chars THEN Len(text)
    ELSE (CHOOSE i \in 1..Len(text) :
              /\ text[i] \notin chars
              /\ \A j \in 1..(i - 1) : text[j] \in chars) - 1

\* the length of the longest suffix of the text made of the characters
TrailingLength(text, chars) ==
    IF \A i \in 1..Len(text) : text[i] \in chars THEN Len(text)
    ELSE Len(text) - (CHOOSE i \in 1..Len(text) :
                          /\ text[i] \notin chars
                          /\ \A j \in (i + 1)..Len(text) : text[j] \in chars)

LStripWs(text) == SubSeq(text, RunLength(text, Whitespace) + 1, Len(text))

RStripWs(text) == SubSeq(text, 1, Len(text) - TrailingLength(text, Whitespace))

\* str.strip()
StripWs(text) == RStripWs(LStripWs(text))

\* the least i >= from such that the text continues with the word at i + 1;
\* -1 if there is none
FirstAt(text, word, from) ==
    IF \E i \in from..(Len(text) - Len(word)) : SubSeq(text, i + 1, i + Len(word)) = word
    THEN CHOOSE i \in from..(Len(text) - Len(word)) :
             /\ SubSeq(text, i + 1, i + Len(word)) = word
             /\ \A j \in from..(i - 1) : SubSeq(text, j + 1, j + Len(word)) # word
    ELSE -1

\* the characters \w of the texts
WordChars ==
    {"P", "R", "O", "G", "A", "M", "E", "N", "D", "V", "F", "_",
     "a", "b", "c", "p", "x", "z", "1"}

\* pattern.match(text): the length of the match at the start of the text,
\* -1 without a match.  one: [word]; many: [word]+; until: (?s).*?(?=word);
\* word: \w+; wordnot: (?!word)(\w+); braces: (?s)\{.*?}, the word being the two
\* braces; any: [word]*
RegexMatch(kind, word, text) ==
    CASE kind = "one" -> IF RunLength(text, RangeOf(word)) >= 1 THEN 1 ELSE -1
      [] kind = "any" -> RunLength(text, RangeOf(word))
      [] kind = "many" -> IF RunLength(text, RangeOf(word)) >= 1
                          THEN RunLength(text, RangeOf(word)) ELSE -1
      [] kind = "until" -> FirstAt(text, word, 0)
      [] kind = "word" -> IF RunLength(text, WordChars) >= 1
                          THEN RunLength(text, WordChars) ELSE -1
      [] kind = "wordnot" ->
             IF RunLength(text, WordChars) >= 1 /\ FirstAt(text, word, 0) # 0
             THEN RunLength(text, WordChars) ELSE -1
      [] kind = "braces" ->
             IF Len(text) > 0 /\ Head(text) = word[1] /\ FirstAt(text, <<word[2]>>, 1) # -1
             THEN FirstAt(text, <<word[2]>>, 1) + 1 ELSE -1

\* DEFAULT_COMMENT_PATTERN, of which the texts use the { ... } form
CommentPattern == Re("braces", <<"{", "}">>)

RECURSIVE SkipComments(_)
\* the loop of skip: a comment is parsed off, then the text is stripped
SkipComments(t) ==
    IF RegexMatch(CommentPattern.name[1], CommentPattern.word, StripWs(t)) = -1
    THEN t
    ELSE SkipComments(StripWs(SubSeq(StripWs(t),
             RegexMatch(CommentPattern.name[1], CommentPattern.word, StripWs(t)) + 1,
             Len(StripWs(t)))))

\* skip(skipper, text, skip_ws = True, skip_comments); without comments
\* (the skipper's own calls) it only strips
skip(text, skip_comments) ==
    IF skip_comments THEN SkipComments(StripWs(text)) ELSE StripWs(text)

\* the nodes of the parser's tree: a string, and a tuple (name, children);
\* for a function that returns a bare regular expression the second member
\* of the tuple is the matched string itself, kept in text
LeafP(text) == [tag |-> <<>>, text |-> text, kids |-> <<>>]
NodeP(name, text, kids) == [tag |-> name, text |-> text, kids |-> kids]

\* what a pattern hands to r: None, a string or a list
NoResult == [kind |-> "None", str |-> <<>>, list |-> <<>>]
StrResult(text) == [kind |-> "str", str |-> text, list |-> <<>>]
ListResult(list) == [kind |-> "list", str |-> <<>>, list |-> list]

Returned(list, text, rest) ==
    [ok |-> TRUE, result |-> list, text |-> text, rest_length |-> rest]
Raised(rest) ==
    [ok |-> FALSE, result |-> <<>>, text |-> <<>>, rest_length |-> rest]

Min(a, b) == IF a < b THEN a ELSE b

\* r(_result, _text) of parse_line, for the name and result_so_far in scope
r(name, res, _result, _text, rest) ==
    LET truthy == Len(_result.str) > 0 \/ Len(_result.list) > 0
        new_rest == IF rest = -1 THEN Len(_text) ELSE Min(rest, Len(_text))
    IN  Returned(
            IF Len(name) > 0 /\ truthy
            THEN Append(res, NodeP(name, _result.str, _result.list))
            ELSE IF Len(name) > 0
            THEN Append(res, NodeP(name, <<>>, <<>>))
            ELSE IF truthy
            THEN (IF _result.kind = "list" THEN res \o _result.list
                  ELSE Append(res, LeafP(_result.str)))
            ELSE res,
            _text, new_rest)

\* a helper that gives every function its name as the tag
RuleName_Always(pattern) ==
    IF pattern.t = "function" THEN pattern.name ELSE <<>>

\* the name parse_line keeps for a pattern: that of a function whose
\* __name__ does not start with an underscore
RuleName(pattern) ==
    IF pattern.t = "function" /\ pattern.name[1] # "_" THEN pattern.name ELSE <<>>

\* pattern = pattern(), a function it returns becoming a tuple of one
Evaluated(pattern) ==
    IF pattern.t # "function" THEN pattern
    ELSE IF pattern.items[1].t = "function" THEN Sequence(pattern.items)
    ELSE pattern.items[1]

\* a lookahead that hands back what its object left
LookaheadReturn_Consuming(res, text_line, inner) ==
    Returned(res \o inner.result, inner.text, inner.rest_length)

\* return result_so_far, text_line
LookaheadReturn(res, text_line, inner) ==
    Returned(res, text_line, inner.rest_length)

\* a repetition count that stays in force
ResetQuantifier_Keep(n) == IF n > 0 THEN n ELSE 1

\* n = 1 after a sub-pattern
ResetQuantifier(n) == 1

RECURSIVE parse_line(_, _, _, _)
RECURSIVE AltLoop(_, _, _, _)

\* return r(result, text) at the end of a tuple or a list
ReturnList(name, res, s) ==
    IF s.ok THEN r(name, res, ListResult(s.result), s.text, s.rest_length)
    ELSE Raised(s.rest_length)

\* the object of _Not has been tried
ReturnNot(res, text_line, inner) ==
    IF inner.ok THEN Raised(inner.rest_length) ELSE LookaheadReturn(res, text_line, inner)

\* the object of _And has been tried
ReturnAnd(res, text_line, inner) ==
    IF inner.ok THEN LookaheadReturn(res, text_line, inner) ELSE Raised(inner.rest_length)

\* a choice that takes the last alternative that parses
AltNext_LastSuccess(items, i, text, one) ==
    LET later == AltLoop(items, i + 1, text, one.rest_length)
    IN  IF later.ok THEN later
        ELSE IF one.ok THEN Returned(one.result, one.text, later.rest_length)
        ELSE later

\* if found: break, after alternative i has been tried
AltNext(items, i, text, one) ==
    IF one.ok THEN one ELSE AltLoop(items, i + 1, text, one.rest_length)

\* for p in pattern (a list): the first alternative that parses is taken
AltLoop(items, i, text, rest) ==
    IF i > Len(items) THEN Raised(rest)
    ELSE AltNext(items, i, text, parse_line(text, items[i], <<>>, rest))

RECURSIVE Times(_, _, _)
\* for _ in range(n): the sub-pattern k >= 1 more times, from the list, the
\* text and the rest_length the loop of the tuple has reached
Times(p, k, at) ==
    IF ~ at.ok THEN at
    ELSE IF k = 1 THEN parse_line(at.text, p, at.result, at.rest_length)
    ELSE Times(p, k - 1, parse_line(at.text, p, at.result, at.rest_length))

\* an optional whose failed try has taken the first character it looked at
Optional_Consuming(at, one) ==
    IF one.ok THEN one
    ELSE Returned(at.result, IF Len(at.text) > 0 THEN Tail(at.text) ELSE at.text,
                  one.rest_length)

\* n == 0: one try, whose failure is passed over
Optional(at, one) ==
    IF one.ok THEN one ELSE Returned(at.result, at.text, one.rest_length)

RECURSIVE Star(_, _, _, _)
\* while True: the sub-pattern until it fails; -2 needs one success
StarNext(p, n, found, at, one) ==
    IF one.ok THEN Star(p, n, TRUE, one)
    ELSE IF n = -2 /\ ~ found THEN Raised(one.rest_length)
    ELSE Returned(at.result, at.text, one.rest_length)

Star(p, n, found, at) ==
    StarNext(p, n, found, at, parse_line(at.text, p, at.result, at.rest_length))

\* a sub-pattern of a tuple under the quantifier n
Quantified(p, n, at) ==
    IF n > 0 THEN Times(p, n, at)
    ELSE IF n = 0 THEN Optional(at, parse_line(at.text, p, at.result, at.rest_length))
    ELSE Star(p, n, FALSE, at)

RECURSIVE SeqLoop(_, _, _, _)
\* for p in pattern (a tuple) from member i, n the quantifier in force
SeqLoop(items, i, n, at) ==
    IF i > Len(items) \/ ~ at.ok THEN at
    ELSE IF items[i].t = "int" THEN SeqLoop(items, i + 1, items[i].n, at)
    ELSE SeqLoop(items, i + 1, ResetQuantifier(n), Quantified(items[i], n, at))

\* the branch of parse_line for the type of the pattern, the text being
\* the text_line after skip
Matched(name, pattern, text, text_line, res, rest) ==
    CASE pattern.t = "str" ->
           IF SubSeq(text, 1, Min(Len(pattern.word), Len(text))) = pattern.word
           THEN r(name, res, NoResult,
                  skip(SubSeq(text, Len(pattern.word) + 1, Len(text)), TRUE), rest)
           ELSE Raised(rest)
      [] pattern.t = "Keyword" ->
           IF /\ RunLength(text, WordChars) > 0
              /\ SubSeq(text, 1, RunLength(text, WordChars)) = pattern.word
           THEN r(name, res, NoResult,
                  skip(SubSeq(text, Len(pattern.word) + 1, Len(text)), TRUE), rest)
           ELSE Raised(rest)
      [] pattern.t = "_Not" ->
           ReturnNot(res, text_line, parse_line(text, pattern.items[1], <<>>, rest))
      [] pattern.t = "_And" ->
           ReturnAnd(res, text_line, parse_line(text, pattern.items[1], <<>>, rest))
      [] pattern.t \in {"regex", "Ignore"} ->
           LET m == RegexMatch(pattern.name[1], pattern.word, text)
           IN  IF m = -1 THEN Raised(rest)
               ELSE r(name, res,
                      IF pattern.t = "Ignore" THEN NoResult
                      ELSE StrResult(SubSeq(text, 1, m)),
                      skip(SubSeq(text, m + 1, Len(text)), TRUE), rest)
      [] pattern.t = "tuple" ->
           ReturnList(name, res, SeqLoop(pattern.items, 1, 1, Returned(<<>>, text, rest)))
      [] pattern.t = "list" ->
           ReturnList(name, res, AltLoop(pattern.items, 1, text, rest))
      [] OTHER -> Raised(rest)

\* Parser.parse_line(text_line, pattern, result_so_far) of a parser whose
\* rest_length is rest; what it returns, or that it raised, and the
\* rest_length it leaves
parse_line(text_line, given, res, rest) ==
    Matched(RuleName(given), Evaluated(given), skip(text_line, TRUE), text_line, res, rest)

RECURSIVE Unwrapped(_)
\* while type(language) is function: language = language()
Unwrapped(lang) ==
    IF lang.t = "function" THEN Unwrapped(lang.items[1]) ELSE lang

\* the index of the first newline after offset k, the length of the text if
\* there is none: where the line that starts at offset k ends
LineEnd(text, k) ==
    IF \E e \in (k + 1)..Len(text) : text[e] = "\n"
    THEN CHOOSE e \in (k + 1)..Len(text) :
             /\ text[e] = "\n"
             /\ \A d \in (k + 1)..(e - 1) : text[d] # "\n"
    ELSE Len(text)

RECURSIVE ReadLines(_, _, _)
\* lines.append((len(orig), ld)) for each line of the source from offset k
ReadLines(text, k, ld) ==
    IF k >= Len(text) THEN <<>>
    ELSE <<<<k, ld>>>> \o ReadLines(text, LineEnd(text, k), ld + 1)

RECURSIVE LineLoop(_, _, _, _)
\* for n, ld in lines: the line number of the offset parsed
LineLoop(lines, i, parsed, line_no) ==
    IF i > Len(lines) THEN line_no
    ELSE IF lines[i][1] >= parsed
         THEN (IF lines[i][1] = parsed THEN line_no + 1 ELSE line_no)
         ELSE LineLoop(lines, i + 1, parsed, lines[i][2])

\* orig.splitlines()[k - 1] for k in 1..len
SplitLine(text, k) ==
    LET lines == ReadLines(text, 0, 1)
        start == lines[k][1]
        end == LineEnd(text, start)
    IN  SubSeq(text, start + 1, IF end > 0 /\ text[end] = "\n" THEN end - 1 ELSE end)

\* what a call returns or raises
ReturnedTree(tree, text) ==
    [kind |-> "returned", tree |-> tree, text |-> text, line_no |-> 0, line_cont |-> <<>>]
RaisedSyntaxError(line_no, line_cont) ==
    [kind |-> "SyntaxError", tree |-> <<>>, text |-> <<>>,
     line_no |-> line_no, line_cont |-> line_cont]
RaisedIndexError ==
    [kind |-> "IndexError", tree |-> <<>>, text |-> <<>>, line_no |-> 0, line_cont |-> <<>>]

\* a final check that lets any rest pass
Unparsed_Never(text) == FALSE

\* if text: raise SyntaxError()
Unparsed(text) == Len(text) > 0

\* the except branch of parse: the line of text_len - p.rest_length
ReportSyntaxError(text, rest) ==
    LET lines == ReadLines(text, 0, 1)
        parsed == Len(text) - rest
        line_no == LineLoop(lines, 1, parsed, 0)
    IN  IF Len(lines) = 0 THEN RaisedIndexError
        ELSE RaisedSyntaxError(line_no,
                 SplitLine(text, IF line_no = 0 THEN Len(lines) ELSE line_no))

\* parse(language, line_source, skip_ws=True, skip_comments): the result
\* and the rest_length of its parser
parse(lang, text) ==
    LET p == parse_line(skip(text, TRUE), Unwrapped(lang), <<>>, -1)
    IN  [rest_length |-> p.rest_length,
         result |-> IF p.ok /\ ~ Unparsed(p.text)
                    THEN ReturnedTree(p.result, p.text)
                    ELSE ReportSyntaxError(text, p.rest_length)]

(***************************************************************************)
(* The rules of grammar.py a program of action calls goes through.  Of a   *)
(* choice the alternatives are kept that can match more than the first     *)
(* word of a line of the sources below (a program among the library        *)
(* elements, the section VAR among the declarations, the statement list    *)
(* among the bodies, the empty statement and the action call among the     *)
(* statements), and a rule whose name starts with an underscore, which     *)
(* parse_line neither names nor tags, is written where it is used.         *)
(***************************************************************************)
\* variable_name, over _identifier
variable_name_rule ==
    Function(<<"variable_name">>,
        Sequence(<<Re("word", <<>>), Quantifier(0), Str(<<"^">>)>>))

action_name == Function(<<"action_name">>, Re("wordnot", <<"E", "N", "D", "_">>))

\* statement_list, over _statement
statement_list_rule ==
    Function(<<"statement_list">>,
        Sequence(<<Choice(<<Sequence(<<Str(<<";">>), Quantifier(-1), Str(<<";">>)>>),
                            Sequence(<<action_name, Str(<<";">>)>>)>>),
                   Quantifier(-1),
                   Choice(<<Sequence(<<Str(<<";">>), Quantifier(-1), Str(<<";">>)>>),
                            Sequence(<<action_name, Str(<<";">>)>>)>>)>>))

function_block_body == Function(<<"function_block_body">>, Choice(<<statement_list_rule>>))

unknown_in_program ==
    Function(<<"unknown_in_program">>, Re("until", <<"E", "N", "D", "_", "P", "R", "O", "G", "R", "A", "M">>))

\* var_declarations, over var_init_decl, _var1_init_decl and _var1_list
var_declarations ==
    Function(<<"var_declarations">>,
        Sequence(<<Keyword(<<"V", "A", "R">>),
                   Quantifier(0), Keyword(<<"C", "O", "N", "S", "T", "A", "N", "T">>),
                   Quantifier(-1),
                   Sequence(<<variable_name_rule, Str(<<":">>), Re("word", <<>>),
                              Str(<<";">>)>>),
                   Keyword(<<"E", "N", "D", "_", "V", "A", "R">>),
                   Quantifier(0), Str(<<";">>)>>))

\* program_type_name, over _identifier
program_type_name == Function(<<"program_type_name">>, Sequence(<<Re("word", <<>>)>>))

\* program_declaration, over _other_var_declarations
program_declaration ==
    Function(<<"program_declaration">>,
        Sequence(<<Keyword(<<"P", "R", "O", "G", "R", "A", "M">>),
                   program_type_name,
                   Quantifier(-1), Choice(<<var_declarations>>),
                   Choice(<<function_block_body, unknown_in_program>>),
                   Keyword(<<"E", "N", "D", "_", "P", "R", "O", "G", "R", "A", "M">>),
                   Quantifier(0), Str(<<";">>)>>))

\* iec_source, over _library_element_declaration
iec_source ==
    Function(<<"iec_source">>,
        Sequence(<<Quantifier(-1), Choice(<<program_declaration>>)>>))

iec_source_root == Function(<<"iec_source_root">>, Sequence(<<iec_source>>))

(***************************************************************************)
(* The sources parsed: the lines of a program, each there or not, on one   *)
(* line or on one line each, after and before blank lines.                 *)
(***************************************************************************)
MaxBody == 2
MaxLeading == 1
MaxTrailing == 4

HeaderLines == <<<<"P", "R", "O", "G", "R", "A", "M", " ", "p">>,
                 <<"V", "A", "R", " ", "E", "N", "D", "_", "V", "A", "R">>>>
StatementLine == <<"x", ";">>
FooLine == <<"F", "O", "O">>
EndLine == <<"E", "N", "D", "_", "P", "R", "O", "G", "R", "A", "M">>
CommentLine == <<"{", "c", "}">>

RECURSIVE JoinLines(_, _)
JoinLines(lines, sep) ==
    IF Len(lines) = 0 THEN <<>>
    ELSE IF Len(lines) = 1 THEN lines[1]
    ELSE lines[1] \o <<sep>> \o JoinLines(Tail(lines), sep)

Newlines(k) == [i \in 1..k |-> "\n"]

BodyLines ==
    UNION { [1..k -> {StatementLine, FooLine}] : k \in 0..MaxBody }

ProgramLines ==
    { header \o body \o end \o trailer :
        header \in {<<>>, HeaderLines},
        body \in BodyLines,
        end \in {<<>>, <<EndLine>>},
        trailer \in {<<>>, <<FooLine>>, <<CommentLine>>} }

ProgramTexts ==
    { Newlines(lead) \o JoinLines(lines, sep) \o Newlines(trail) :
        lead \in 0..MaxLeading, lines \in ProgramLines,
        sep \in Whitespace, trail \in 0..MaxTrailing }

(***************************************************************************)
(* Patterns of one construct each, parsed against every short text.        *)
(***************************************************************************)
MaxLen == 4

Re_a == Re("one", <<"a">>)
Re_b == Re("one", <<"b">>)
Re_c == Re("one", <<"c">>)
Re_ab == Sequence(<<Re_a, Re_b>>)

QuantifierCounts == {-2, -1, 0, 1, 2, 3}

QuantifiedPatterns ==
    { Sequence(<<Quantifier(n), Re_a, Re_b>>) : n \in QuantifierCounts }

ChoicePatterns ==
    { Choice(<<Re_a, Re_ab>>),
      Choice(<<Re_ab, Re_a>>),
      Choice(<<Re_b, Re("many", <<"a", "b">>), Re_c>>),
      Sequence(<<Choice(<<Re_a, Re_ab>>), Str(<<"c">>)>>),
      Sequence(<<Choice(<<Re_ab, Re_a>>), Str(<<"c">>)>>) }

LookaheadPatterns ==
    { _And(Re_a), _Not(Re_a), _And(Re_ab), _Not(Str(<<"a", "b">>)),
      Sequence(<<_And(Re_ab), Re("many", <<"a", "b", "c">>)>>),
      Sequence(<<Re_a, _Not(Re_b), Re("many", <<"a", "b", "c">>)>>) }

NamedPatterns ==
    { Function(<<"rule">>, Re_a),
      Function(<<"rule">>, Str(<<"a">>)),
      Function(<<"rule">>, Keyword(<<"a">>)),
      Function(<<"rule">>, Ignore("one", <<"a">>)),
      Function(<<"rule">>, Sequence(<<Quantifier(-1), Re_a>>)),
      Function(<<"_", "rule">>, Re_ab),
      Function(<<"rule">>, Function(<<"_", "inner">>, Re_a)),
      Function(<<"outer">>,
          Sequence(<<Function(<<"_", "inner">>,
                         Sequence(<<Re_a, Function(<<"leaf">>, Sequence(<<Quantifier(0), Re_b>>))>>)),
                     Str(<<"c">>)>>)),
      Function(<<"rule">>, Choice(<<Function(<<"one">>, Re_ab), Function(<<"_", "many">>, Re_a)>>)),
      Str(<<"a">>), Keyword(<<"a", "b">>), Re("many", <<"a", "b">>), Quantifier(1) }

Many_abc == Re("many", <<"a", "b", "c">>)

\* patterns whose sub-pattern a b can fail after its a has matched: under an
\* optional, as the last iteration of a loop, as alternatives of a choice
\* and inside named functions
BacktrackPatterns ==
    { Sequence(<<Quantifier(0), Re_ab, Many_abc>>),
      Sequence(<<Quantifier(-1), Re_ab, Many_abc>>),
      Choice(<<Sequence(<<Re_a, Re_b, Re_c>>), Sequence(<<Re_a, Re_c>>), Many_abc>>),
      Function(<<"rule">>,
          Sequence(<<Quantifier(0), Function(<<"pair">>, Re_ab),
                     Quantifier(-2), Function(<<"one">>, Choice(<<Re_ab, Re_c, Re_a>>))>>)) }

Patterns ==
    QuantifiedPatterns \cup ChoicePatterns \cup LookaheadPatterns \cup NamedPatterns
        \cup BacktrackPatterns

ShortTexts == UNION { [1..k -> {"a", "b", "c", " "}] : k \in 0..MaxLen }

\* the lists handed in as result_so_far
ResultLists == {<<>>, <<LeafP(<<"z">>)>>}

ParserInputs ==
    ({iec_source_root} \X ProgramTexts \X {<<>>})
        \cup (Patterns \X ShortTexts \X ResultLists)

ParserInit ==
    /\ PipelineIdle
    /\ ClassifierIdle
    /\ pc = "input"
    /\ \E input \in ParserInputs :
           language = input[1] /\ orig = input[2] /\ so_far = input[3]
    /\ rest_length = -1
    /\ result = None

\* parse_line(text_line, pattern, result_so_far, skip_ws, skip_comments)
ParseLine ==
    /\ pc = "input"
    /\ LET p == parse_line(skip(orig, TRUE), language, so_far, -1)
       IN  /\ rest_length' = p.rest_length
           /\ result' = IF p.ok THEN ReturnedTree(p.result, p.text)
                        ELSE RaisedSyntaxError(0, <<>>)
    /\ pc' = "line_parsed"
    /\ UNCHANGED <<pipelineVars, classifierVars, language, orig, so_far>>

\* parse(language, line_source, skip_ws, skip_comments)
ParseFile ==
    /\ pc = "input"
    /\ LET p == parse(language, orig)
       IN  rest_length' = p.rest_length /\ result' = p.result
    /\ pc' = "file_parsed"
    /\ UNCHANGED <<pipelineVars, classifierVars, language, orig, so_far>>

ParserNext == ParseLine \/ ParseFile

ParserSpec == ParserInit /\ [][ParserNext]_vars

(***************************************************************************)
(* Properties of the parser.                                               *)
(***************************************************************************)
\* the 1-based number of the line that holds the character at offset k
LineOfOffset(text, k) == 1 + Cardinality({ i \in 1..k : text[i] = "\n" })

\* a program whose body is the one word FOO
InvalidBodyTexts ==
    { Newlines(lead) \o JoinLines(HeaderLines \o <<FooLine, EndLine>>, sep) \o Newlines(trail) :
        lead \in 0..MaxLeading, sep \in Whitespace, trail \in 0..MaxTrailing }

\* C12: parsing a program whose body is not a valid statement list, as
\* PROGRAM p VAR END_VAR FOO END_PROGRAM, raises a SyntaxError whose line
\* number is that of the line containing FOO, and returns no parse tree.
C12_InvalidBodyRejected ==
    (pc = "file_parsed" /\ language = iec_source_root /\ orig \in InvalidBodyTexts)
        => /\ result.kind = "SyntaxError"
           /\ result.line_no = LineOfOffset(orig, FirstAt(orig, FooLine, 0))

\* the offset in the source of the earliest unconsumed position: every
\* remaining text the parser measures is an end of the source without its
\* trailing whitespace
EarliestUnconsumed == Len(RStripWs(orig)) - rest_length

\* C13: when parse fails on a program source, the SyntaxError reports the
\* 1-based number and the text of the source line that contains the
\* earliest unconsumed position, whatever the leading or trailing
\* whitespace or blank lines of the source.
C13_ErrorLineOfEarliestUnconsumed ==
    (pc = "file_parsed" /\ language = iec_source_root /\ result.kind # "returned")
        => /\ result.kind = "SyntaxError"
           /\ rest_length >= 0
           /\ result.line_no = LineOfOffset(orig, EarliestUnconsumed)
           /\ result.line_cont = SplitLine(orig, LineOfOffset(orig, EarliestUnconsumed))

\* what matching the top-level pattern against the source gives
TopLevelMatch == parse_line(skip(orig, TRUE), Unwrapped(language), <<>>, -1)

TextEndsWith(text, word) ==
    /\ Len(text) >= Len(word)
    /\ SubSeq(text, Len(text) - Len(word) + 1, Len(text)) = word

\* programs of action calls, followed by a comment
CommentedPrograms ==
    { Newlines(lead) \o JoinLines(HeaderLines \o body \o <<EndLine, CommentLine>>, sep)
          \o Newlines(trail) :
        lead \in 0..MaxLeading, sep \in Whitespace, trail \in 0..MaxTrailing,
        body \in UNION { [1..k -> {StatementLine}] : k \in 0..MaxBody } }

\* C14: parse returns a tree only if the top-level pattern matched and all
\* input remaining after it is whitespace or comments (the tree is then the
\* one of the match); if other text remains after the top-level match,
\* parse raises SyntaxError.  So a source that ends with the word FOO is
\* rejected and a program followed by a comment is accepted.
C14_TreeOnlyIfAllConsumed ==
    pc = "file_parsed" =>
        /\ result.kind = "returned" =>
               /\ TopLevelMatch.ok
               /\ TopLevelMatch.text = <<>>
               /\ result.tree = TopLevelMatch.result
        /\ (TopLevelMatch.ok /\ TopLevelMatch.text # <<>>) => result.kind = "SyntaxError"
        /\ (language = iec_source_root /\ TextEndsWith(RStripWs(orig), FooLine))
               => result.kind = "SyntaxError"
        /\ (language = iec_source_root /\ orig \in CommentedPrograms)
               => result.kind = "returned"

\* a program followed by the word FOO: the pattern matched, FOO remains
C14_Witness ==
    /\ pc = "file_parsed"
    /\ language = iec_source_root
    /\ orig = JoinLines(HeaderLines \o <<StatementLine, EndLine, FooLine>>, "\n") \o Newlines(1)
    /\ TopLevelMatch.ok
    /\ TopLevelMatch.text = FooLine
    /\ result.kind = "SyntaxError"

\* the characters of a text that are not whitespace
NonWs(text) == SelectSeq(text, LAMBDA c : c \notin Whitespace)

\* what is left of a text after its first m characters that are not
\* whitespace, stripped
AfterTokens(text, m) ==
    IF m = 0 THEN StripWs(text)
    ELSE StripWs(SubSeq(text,
             1 + (CHOOSE i \in 1..Len(text) :
                      /\ text[i] \notin Whitespace
                      /\ Cardinality({ j \in 1..i : text[j] \notin Whitespace }) = m),
             Len(text)))

\* how many times a sub-pattern under the quantifier n is matched when it
\* can be matched k times in a row
Repetitions(n, k) ==
    IF n > 0 THEN n ELSE IF n = 0 THEN (IF k >= 1 THEN 1 ELSE 0) ELSE k

\* C15: in the sequence (n, a, b) the quantifier n governs a alone and b is
\* matched once: n > 0 requires n consecutive matches of a; 0 takes one
\* match of a if there is one and goes on without it otherwise, consuming
\* and adding nothing; -1 takes every consecutive match of a, none allowed;
\* -2 does the same and fails the sequence when there is none.
C15_QuantifierSemantics ==
    (pc = "line_parsed" /\ language \in QuantifiedPatterns) =>
        LET n == language.items[1].n
            chars == NonWs(orig)
            k == RunLength(chars, {"a"})
            taken == Repetitions(n, k)
            fits == /\ n > 0 => k >= n
                    /\ n = -2 => k >= 1
                    /\ Len(chars) > taken
                    /\ chars[taken + 1] = "b"
        IN  IF fits
            THEN result = ReturnedTree(
                     so_far \o [i \in 1..taken |-> LeafP(<<"a">>)] \o <<LeafP(<<"b">>)>>,
                     AfterTokens(orig, taken + 1))
            ELSE result.kind = "SyntaxError"

\* one or more a: two are found, then the one b, and a second b is left
C15_Witness ==
    /\ pc = "line_parsed"
    /\ language = Sequence(<<Quantifier(-2), Re_a, Re_b>>)
    /\ orig = <<"a", "a", "b", "b">>
    /\ so_far = <<LeafP(<<"z">>)>>
    /\ result = ReturnedTree(
           <<LeafP(<<"z">>), LeafP(<<"a">>), LeafP(<<"a">>), LeafP(<<"b">>)>>, <<"b">>)

\* alternative i of the choice parsed on its own at the start of the source
Alternative(i) == parse_line(skip(orig, TRUE), language.items[i], <<>>, -1)

\* the alternatives of the choice that parse
Parsing == { i \in 1..Len(language.items) : Alternative(i).ok }

\* C16: a choice gives the result and the remaining text of its
\* lowest-index alternative that parses, whatever the later alternatives
\* would consume, and fails only if every alternative fails; so a choice of
\* a and a b followed by c takes a and fails on the text a b c, which the
\* second alternative would let the sequence parse, and the choice of a b
\* and a followed by c parses a b c and a c.
C16_OrderedChoice ==
    /\ (pc = "line_parsed" /\ language \in ChoicePatterns /\ language.t = "list") =>
           IF Parsing = {}
           THEN result.kind = "SyntaxError"
           ELSE LET first == CHOOSE i \in Parsing : \A j \in Parsing : i <= j
                IN  result = ReturnedTree(so_far \o Alternative(first).result,
                                          Alternative(first).text)
    /\ (pc = "line_parsed" /\ language = Sequence(<<Choice(<<Re_a, Re_ab>>), Str(<<"c">>)>>)) =>
           IF Len(NonWs(orig)) >= 2 /\ SubSeq(NonWs(orig), 1, 2) = <<"a", "c">>
           THEN result = ReturnedTree(so_far \o <<LeafP(<<"a">>)>>, AfterTokens(orig, 2))
           ELSE result.kind = "SyntaxError"
    /\ (pc = "line_parsed" /\ language = Sequence(<<Choice(<<Re_ab, Re_a>>), Str(<<"c">>)>>)) =>
           IF Len(NonWs(orig)) >= 3 /\ SubSeq(NonWs(orig), 1, 3) = <<"a", "b", "c">>
           THEN result = ReturnedTree(so_far \o <<LeafP(<<"a">>), LeafP(<<"b">>)>>,
                                      AfterTokens(orig, 3))
           ELSE IF Len(NonWs(orig)) >= 2 /\ SubSeq(NonWs(orig), 1, 2) = <<"a", "c">>
           THEN result = ReturnedTree(so_far \o <<LeafP(<<"a">>)>>, AfterTokens(orig, 2))
           ELSE result.kind = "SyntaxError"

\* both alternatives parse on a b c and the first, the shorter one, is taken
C16_Witness ==
    /\ pc = "line_parsed"
    /\ language = Choice(<<Re_a, Re_ab>>)
    /\ orig = <<"a", "b", "c">>
    /\ Parsing = {1, 2}
    /\ result = ReturnedTree(so_far \o <<LeafP(<<"a">>)>>, <<"b", "c">>)

StartsWithText(text, word) ==
    Len(text) >= Len(word) /\ SubSeq(text, 1, Len(word)) = word

\* whether the object of a lookahead matches at the start of the source
ObjectMatches(obj) ==
    CASE obj = Re_a -> StartsWithText(NonWs(orig), <<"a">>)
      [] obj = Re_ab -> StartsWithText(NonWs(orig), <<"a", "b">>)
      [] obj = Str(<<"a", "b">>) -> StartsWithText(StripWs(orig), <<"a", "b">>)

\* the result of the pattern [abc]+ on a text that starts with a match:
\* the match is added as a leaf and taken off the text
WordTaken(res, text) ==
    ReturnedTree(
        res \o <<LeafP(SubSeq(text, 1, RunLength(text, {"a", "b", "c"})))>>,
        StripWs(SubSeq(text, RunLength(text, {"a", "b", "c"}) + 1, Len(text))))

\* C17: And(e) succeeds iff e matches and Not(e) succeeds iff e does not
\* match; on success the remaining text is the text passed in and the
\* result list is the one passed in, so that the pattern after a lookahead
\* in a sequence matches from where the lookahead started.
C17_LookaheadConsumesNothing ==
    /\ (pc = "line_parsed" /\ language \in LookaheadPatterns /\ language.t = "_And") =>
           IF ObjectMatches(language.items[1])
           THEN result = ReturnedTree(so_far, StripWs(orig))
           ELSE result.kind = "SyntaxError"
    /\ (pc = "line_parsed" /\ language \in LookaheadPatterns /\ language.t = "_Not") =>
           IF ObjectMatches(language.items[1])
           THEN result.kind = "SyntaxError"
           ELSE result = ReturnedTree(so_far, StripWs(orig))
    /\ (pc = "line_parsed"
          /\ language = Sequence(<<_And(Re_ab), Re("many", <<"a", "b", "c">>)>>)) =>
           IF ObjectMatches(Re_ab)
           THEN result = WordTaken(so_far, StripWs(orig))
           ELSE result.kind = "SyntaxError"
    /\ (pc = "line_parsed"
          /\ language = Sequence(<<Re_a, _Not(Re_b), Re("many", <<"a", "b", "c">>)>>)) =>
           IF /\ Len(NonWs(orig)) >= 2
              /\ NonWs(orig)[1] = "a"
              /\ NonWs(orig)[2] \in {"a", "c"}
           THEN result = WordTaken(so_far \o <<LeafP(<<"a">>)>>, AfterTokens(orig, 1))
           ELSE result.kind = "SyntaxError"

\* a positive lookahead whose object consumes two characters, with a result
\* list handed in: both come back as they were
C17_Witness ==
    /\ pc = "line_parsed"
    /\ language = _And(Re_ab)
    /\ orig = <<" ", "a", "b", "c">>
    /\ so_far = <<LeafP(<<"z">>)>>
    /\ result = ReturnedTree(<<LeafP(<<"z">>)>>, <<"a", "b", "c">>)

RECURSIVE NodeTags(_)
\* the tags of the nodes of a list of trees
NodeTags(nodes) ==
    UNION { {nodes[i].tag} \cup NodeTags(nodes[i].kids) : i \in 1..Len(nodes) }

RECURSIVE FunctionNames(_)
\* the names of the functions of a pattern
FunctionNames(pattern) ==
    (IF pattern.t = "function" THEN {pattern.name} ELSE {})
        \cup UNION { FunctionNames(pattern.items[i]) : i \in 1..Len(pattern.items) }

\* the call returned the trees after the list handed in and left the text
\* after its first tokens words, if the condition holds; it failed, if not
Gives(cond, trees, tokens) ==
    IF cond THEN result = ReturnedTree(so_far \o trees, AfterTokens(orig, tokens))
    ELSE result.kind = "SyntaxError"

LeafA == LeafP(<<"a">>)
LeafB == LeafP(<<"b">>)

\* C18: in every tree of the parser the tag of a node is the name of a
\* function of the grammar that does not begin with an underscore; what a
\* function whose name begins with one matches goes to the parent's
\* children, a matched literal or keyword adds nothing, a matched regular
\* expression adds its text, and a named function without result gives a
\* node with no children.
C18_TagsAreRuleNames ==
    /\ (pc \in {"line_parsed", "file_parsed"} /\ result.kind = "returned") =>
           \A tag \in NodeTags(result.tree) \ {<<>>} :
               tag[1] # "_" /\ tag \in FunctionNames(language)
    /\ pc = "line_parsed" =>
         LET chars == NonWs(orig)
             text == StripWs(orig)
             k == RunLength(chars, {"a"})
         IN
         /\ language = Function(<<"rule">>, Re_a) =>
                Gives(StartsWithText(chars, <<"a">>),
                      <<NodeP(<<"rule">>, <<"a">>, <<>>)>>, 1)
         /\ language = Function(<<"rule">>, Str(<<"a">>)) =>
                Gives(StartsWithText(chars, <<"a">>),
                      <<NodeP(<<"rule">>, <<>>, <<>>)>>, 1)
         /\ language = Function(<<"rule">>, Keyword(<<"a">>)) =>
                Gives(StartsWithText(chars, <<"a">>) /\ RunLength(text, WordChars) = 1,
                      <<NodeP(<<"rule">>, <<>>, <<>>)>>, 1)
         /\ language = Function(<<"rule">>, Ignore("one", <<"a">>)) =>
                Gives(StartsWithText(chars, <<"a">>),
                      <<NodeP(<<"rule">>, <<>>, <<>>)>>, 1)
         /\ language = Function(<<"rule">>, Sequence(<<Quantifier(-1), Re_a>>)) =>
                Gives(TRUE, <<NodeP(<<"rule">>, <<>>, [i \in 1..k |-> LeafA])>>, k)
         /\ language = Function(<<"_", "rule">>, Re_ab) =>
                Gives(StartsWithText(chars, <<"a", "b">>), <<LeafA, LeafB>>, 2)
         /\ language = Function(<<"rule">>, Function(<<"_", "inner">>, Re_a)) =>
                Gives(StartsWithText(chars, <<"a">>),
                      <<NodeP(<<"rule">>, <<>>, <<LeafA>>)>>, 1)
         /\ language = Function(<<"rule">>,
                           Choice(<<Function(<<"one">>, Re_ab),
                                    Function(<<"_", "many">>, Re_a)>>)) =>
                IF StartsWithText(chars, <<"a", "b">>)
                THEN Gives(TRUE, <<NodeP(<<"rule">>, <<>>,
                                         <<NodeP(<<"one">>, <<>>, <<LeafA, LeafB>>)>>)>>, 2)
                ELSE Gives(StartsWithText(chars, <<"a">>),
                           <<NodeP(<<"rule">>, <<>>, <<LeafA>>)>>, 1)
         /\ (language.t = "function" /\ language.name = <<"outer">>) =>
                IF StartsWithText(chars, <<"a", "b", "c">>)
                THEN Gives(TRUE, <<NodeP(<<"outer">>, <<>>,
                                         <<LeafA, NodeP(<<"leaf">>, <<>>, <<LeafB>>)>>)>>, 3)
                ELSE Gives(StartsWithText(chars, <<"a", "c">>),
                           <<NodeP(<<"outer">>, <<>>,
                                   <<LeafA, NodeP(<<"leaf">>, <<>>, <<>>)>>)>>, 2)

\* the function outer over the anonymous _inner, the named leaf that finds
\* nothing and the literal c, on the text a c
C18_Witness ==
    /\ pc = "line_parsed"
    /\ language.t = "function"
    /\ language.name = <<"outer">>
    /\ orig = <<"a", " ", "c">>
    /\ so_far = <<>>
    /\ result = ReturnedTree(
           <<NodeP(<<"outer">>, <<>>, <<LeafA, NodeP(<<"leaf">>, <<>>, <<>>)>>)>>, <<>>)

(***************************************************************************)
(* The variable table: extract_variables_from_ast on the tree of a program *)
(* with one declaration section.  A declaration is a list of names, a type *)
(* keyword and its form, `names : T;` or `names : ARRAY [1..2] OF T;`.     *)
(***************************************************************************)
\* number of names of a declaration
MaxDeclNames == 2

Identifiers == {"X", "Level", "Command"}

TypeKeywords ==
    {"BOOL", "INT", "DINT", "SINT", "REAL", "LREAL", "WORD", "DWORD", "UINT",
     "ULINT", "LINT", "BYTE", "TIME"}

Sections == {"VAR_INPUT", "VAR_OUTPUT", "VAR"}

\* the grammar rule of a type keyword: type_bool() is Keyword("BOOL"), ...
type_rule(keyword) ==
    CASE keyword = "BOOL" -> "type_bool"
      [] keyword = "INT" -> "type_int"
      [] keyword = "DINT" -> "type_dint"
      [] keyword = "SINT" -> "type_sint"
      [] keyword = "REAL" -> "type_real"
      [] keyword = "LREAL" -> "type_l_real"
      [] keyword = "WORD" -> "type_word"
      [] keyword = "DWORD" -> "type_dword"
      [] keyword = "UINT" -> "type_uint"
      [] keyword = "ULINT" -> "type_ulint"
      [] keyword = "LINT" -> "type_lint"
      [] keyword = "BYTE" -> "type_byte"
      [] keyword = "TIME" -> "type_time"

\* the named rule that holds the choice of the keyword's rule
type_category_rule(keyword) ==
    CASE keyword \in {"INT", "DINT", "SINT", "UINT", "ULINT", "LINT"} -> "integer_type_name"
      [] keyword \in {"REAL", "LREAL"} -> "real_type_name"
      [] keyword \in {"BOOL", "WORD", "DWORD", "BYTE"} -> "bit_string_type_name"
      [] keyword = "TIME" -> "date_type_name"

\* _elementary_type_name and _numeric_type_name leave no node
_elementary_type_name(keyword) ==
    Tuple(type_category_rule(keyword), <<Tuple(type_rule(keyword), <<>>)>>)

\* 0, pointer_to, _simple_specification, 0, (":=", expression)
simple_spec_init(keyword) ==
    Tuple("simple_spec_init", <<_elementary_type_name(keyword)>>)

\* expression, "..", expression
subrange(low, high) ==
    Tuple("subrange", <<expression(<<I(low)>>), expression(<<I(high)>>)>>)

\* Keyword("ARRAY"), "[", subrange, "]", Keyword("OF"), non_generic_type_name
array_specification(keyword) ==
    Tuple("array_specification",
          <<subrange("1", "2"),
            Tuple("non_generic_type_name", <<_elementary_type_name(keyword)>>)>>)

array_spec_init(keyword) == Tuple("array_spec_init", <<array_specification(keyword)>>)

\* variable_name, -1, (",", variable_name)
_var1_list(names) == [i \in 1..Len(names) |-> variable_name(names[i])]

\* _var1_list, ":", array_spec_init
array_var_init_decl(decl) ==
    Tuple("array_var_init_decl", _var1_list(decl.names) \o <<array_spec_init(decl.type)>>)

\* _var1_list, ":", [simple_spec_init, ...]
_var1_init_decl(decl) == _var1_list(decl.names) \o <<simple_spec_init(decl.type)>>

\* [array_var_init_decl, ..., _var1_init_decl, ...]
var_init_decl(decl) ==
    Tuple("var_init_decl",
          IF decl.form = "array" THEN <<array_var_init_decl(decl)>>
          ELSE _var1_init_decl(decl))

\* input_declarations, output_declarations and var_declarations
DeclarationSection(section, decls) ==
    Tuple(CASE section = "VAR_INPUT" -> "input_declarations"
            [] section = "VAR_OUTPUT" -> "output_declarations"
            [] section = "VAR" -> "var_declarations",
          [i \in 1..Len(decls) |-> var_init_decl(decls[i])])

\* the tree of PROGRAM p <section> x := 1; END_PROGRAM
ProgramTree(section, decls) ==
    Tuple("iec_source",
          <<Tuple("program_declaration",
                  <<Tuple("program_type_name", <<Leaf("p")>>),
                    DeclarationSection(section, decls),
                    Tuple("function_block_body",
                          <<statement_list(<<Asg("X", <<I("1")>>)>>)>>)>>)>>)

NameLists ==
    { names \in UNION { [1..n -> Identifiers] : n \in 1..MaxDeclNames } :
        \A i, j \in 1..Len(names) : i # j => names[i] # names[j] }

Declarations ==
    [names : NameLists, type : TypeKeywords, form : {"simple", "array"}]

DeclaredPrograms == [section : Sections, decls : { <<d>> : d \in Declarations }]

RECURSIVE _find_all_nodes(_, _)
RECURSIVE FindInList(_, _)
\* traverse(child) for each child
FindInList(kids, node_type) ==
    IF Len(kids) = 0 THEN <<>>
    ELSE _find_all_nodes(Head(kids), node_type) \o FindInList(Tail(kids), node_type)

_find_all_nodes(node, node_type) ==
    (IF _is_node_type(node, node_type) THEN <<node>> ELSE <<>>)
        \o FindInList(_iterate_ast_list(node), node_type)

\* the first child that is a variable_name
_extract_variable_name(decl_node) ==
    LET named == SelectSeq(_iterate_ast_list(decl_node),
                           LAMBDA child : _is_node_type(child, "variable_name"))
    IN  IF Len(named) = 0 THEN None ELSE _extract_text(Head(named))

type_category_nodes ==
    [real_type_name |-> "REAL", integer_type_name |-> "INT", bit_string_type_name |-> "BOOL"]

specific_type_nodes ==
    [type_bool |-> "BOOL", type_int |-> "INT", type_dint |-> "DINT", type_sint |-> "SINT",
     type_real |-> "REAL", type_lreal |-> "LREAL", type_word |-> "WORD",
     type_dword |-> "DWORD", type_uint |-> "UINT", type_ulint |-> "ULINT"]

RECURSIVE search_for_type(_, _)
RECURSIVE SearchChildren(_, _)
\* for child in _iterate_ast_list(node): the first result that is not None
SearchChildren(kids, depth) ==
    IF Len(kids) = 0 THEN None
    ELSE IF search_for_type(Head(kids), depth) # None
    THEN search_for_type(Head(kids), depth)
    ELSE SearchChildren(Tail(kids), depth)

search_for_type(node, depth) ==
    IF depth > 5 THEN None
    ELSE IF node.tag \in DOMAIN type_category_nodes
    THEN (IF SearchChildren(_iterate_ast_list(node), depth + 1) # None
          THEN SearchChildren(_iterate_ast_list(node), depth + 1)
          ELSE type_category_nodes[node.tag])
    ELSE IF node.tag \in DOMAIN specific_type_nodes
    THEN specific_type_nodes[node.tag]
    ELSE SearchChildren(_iterate_ast_list(node), depth + 1)

_extract_data_type(decl_node) ==
    IF search_for_type(decl_node, 0) # None THEN search_for_type(decl_node, 0)
    ELSE "UNKNOWN"

\* Variable(name, var_type, data_type, scope)
Variable(name, role, data_type, in_scope) ==
    [name |-> name, var_type |-> role, data_type |-> data_type, scope |-> in_scope]

\* variables[var_name] = Variable(...)
Stored(table, entry) ==
    [n \in DOMAIN table \cup {entry.name} |-> IF n = entry.name THEN entry ELSE table[n]]

RECURSIVE DeclLoop(_, _, _)
\* for item in _iterate_ast_list(section_ast)
DeclLoop(items, in_scope, table) ==
    IF Len(items) = 0 THEN table
    ELSE IF /\ _is_node_type(Head(items), "var_init_decl")
            /\ _extract_variable_name(Head(items)) # None
    THEN DeclLoop(Tail(items), in_scope,
             Stored(table,
                 Variable(_extract_variable_name(Head(items)),
                          classify_variable(<<_extract_variable_name(Head(items))>>, in_scope),
                          _extract_data_type(Head(items)),
                          in_scope)))
    ELSE DeclLoop(Tail(items), in_scope, table)

extract_from_decl_section(section_ast, in_scope, table) ==
    DeclLoop(_iterate_ast_list(section_ast), in_scope, table)

RECURSIVE SectionLoop(_, _, _)
\* for node in the nodes of one kind
SectionLoop(nodes, in_scope, table) ==
    IF Len(nodes) = 0 THEN table
    ELSE SectionLoop(Tail(nodes), in_scope,
                     extract_from_decl_section(Head(nodes), in_scope, table))

extract_variables_from_ast(tree) ==
    SectionLoop(_find_all_nodes(tree, "var_declarations"), "var",
        SectionLoop(_find_all_nodes(tree, "output_declarations"), "output",
            SectionLoop(_find_all_nodes(tree, "input_declarations"), "input", <<>>)))

DeclInit ==
    /\ source \in DeclaredPrograms
    /\ variables = <<>>
    /\ state_variable = None
    /\ hash_order = <<>>
    /\ ast = NoTree
    /\ pdg = ProgramDependencyGraph(StateId)
    /\ templates = <<>>
    /\ pc = "declared_source"
    /\ ClassifierIdle
    /\ ParserIdle

\* parse: the tree of the program
ParseDeclarations ==
    /\ pc = "declared_source"
    /\ ast' = ProgramTree(source.section, source.decls)
    /\ pc' = "declarations_parsed"
    /\ UNCHANGED <<source, variables, state_variable, hash_order, pdg, templates>>
    /\ UNCHANGED <<classifierVars, parserVars>>

\* variables = extract_variables_from_ast(ast)
ExtractVariables ==
    /\ pc = "declarations_parsed"
    /\ variables' = extract_variables_from_ast(ast)
    /\ pc' = "variables_extracted"
    /\ UNCHANGED <<source, state_variable, hash_order, ast, pdg, templates>>
    /\ UNCHANGED <<classifierVars, parserVars>>

DeclNext == ParseDeclarations \/ ExtractVariables

DeclSpec == DeclInit /\ [][DeclNext]_vars

\* C21: after extract_variables_from_ast every identifier declared in the
\* section has an entry in the variable table, with one role: every name of
\* a list of names as in `a, b : INT;` has one.
C21_EveryDeclaredNameHasEntry ==
    pc = "variables_extracted" =>
        \A i \in 1..Len(source.decls) :
            \A k \in 1..Len(source.decls[i].names) :
                /\ source.decls[i].names[k] \in DOMAIN variables
                /\ variables[source.decls[i].names[k]].var_type
                       \in {"sensing", "actuation", "configuration", "internal"}

ListedTypes ==
    {"BOOL", "INT", "DINT", "SINT", "REAL", "LREAL", "WORD", "DWORD", "UINT", "ULINT"}

\* the data type of a declaration of the type keyword
DataTypeOf(keyword) ==
    CASE keyword \in ListedTypes -> keyword
      [] keyword = "LINT" -> "INT"
      [] keyword = "BYTE" -> "BOOL"
      [] OTHER -> "UNKNOWN"

\* C22: the data type recorded for a declaration `x : T;` is T for each of
\* the types BOOL, INT, DINT, SINT, REAL, LREAL, WORD, DWORD, UINT, ULINT
\* (LREAL for `x : LREAL`), the default of the category (INT, BOOL, REAL)
\* for another type of a numeric, bit-string or real category, and UNKNOWN
\* when nothing matches.
C22_DataTypeIsDeclaredType ==
    pc = "variables_extracted" =>
        \A i \in 1..Len(source.decls) :
            source.decls[i].form = "simple" =>
                /\ source.decls[i].names[1] \in DOMAIN variables
                /\ variables[source.decls[i].names[1]].data_type
                       = DataTypeOf(source.decls[i].type)


(***************************************************************************)
(* build_all_pdgs: the PDGs of a program, one entry per state id.  A       *)
(* program here is a CASE statement whose arms hold one assignment and,    *)
(* after it, at most one CASE statement of their own.  In this             *)
(* specification pdg holds the map build_all_pdgs returns (state id to     *)
(* ProgramDependencyGraph).                                                *)
(***************************************************************************)
\* arms of the top-level CASE (a CASE inside an arm has one arm)
MaxArms == 2

StateIds == {"10", "20", "30"}

\* label: tmp := value;
ArmStatements(value) == NumberList(<<Asg("tmp", <<I(value)>>)>>, 1)

\* Keyword("CASE"), expression, Keyword("OF"), case_element, -1, case_element, ...
case_statement(selector, elements) ==
    Tuple("case_statement", <<expression(<<V(selector)>>)>> \o elements)

\* the arms `label: tmp := value;` of the CASE inside an arm
NestedElements(arms) ==
    [i \in 1..Len(arms) |-> case_element(arms[i].label, ArmStatements(arms[i].value))]

\* label: tmp := value; [CASE sub OF ... END_CASE;]: the CASE inside the arm
\* is one more statement of the arm's statement_list
ArmElement(arm) ==
    LET element == case_element(arm.label, ArmStatements(arm.value))
    IN  IF Len(arm.nested) = 0 THEN element
        ELSE [element EXCEPT !.kids[2].kids =
                 @ \o <<case_statement("sub", NestedElements(arm.nested))>>]

CaseProgramTree(program) ==
    Tuple("iec_source",
          <<Tuple("program_declaration",
                  <<Tuple("program_type_name", <<Leaf("p")>>),
                    Tuple("function_block_body",
                          <<Tuple("statement_list",
                                  <<case_statement(program.selector,
                                       [i \in 1..Len(program.arms) |->
                                           ArmElement(program.arms[i])])>>)>>)>>)>>)

\* the arms of the CASE inside the k-th top-level arm: their value tells them
\* from the top-level arms
NestedArmLists(k) ==
    {<<>>} \cup { <<[label |-> l, value |-> IF k = 1 THEN "7" ELSE "8"]>> : l \in StateIds }

\* the top-level arms carry distinct labels
ArmLists ==
    UNION { { arms \in [1..n -> [label : StateIds, value : {"1", "2"},
                                 nested : NestedArmLists(1) \cup NestedArmLists(2)]] :
                /\ \A i \in 1..n : arms[i].value = (IF i = 1 THEN "1" ELSE "2")
                /\ \A i \in 1..n : arms[i].nested \in NestedArmLists(i)
                /\ \A i, j \in 1..n : i # j => arms[i].label # arms[j].label }
            : n \in 1..MaxArms }

CasePrograms == [selector : {"st"}, arms : ArmLists]

\* find_first_var
RECURSIVE find_first_var(_)
RECURSIVE FirstVarIn(_)
FirstVarIn(kids) ==
    IF Len(kids) = 0 THEN None
    ELSE LET res == find_first_var(Head(kids))
         IN  IF res # None THEN res ELSE FirstVarIn(Tail(kids))
find_first_var(node) ==
    IF _is_node_type(node, "variable_name") THEN _extract_text(node)
    ELSE FirstVarIn(_iterate_ast_list(node))

_extract_state_variable(case_stmt_ast) ==
    LET governing == FirstOfType(_iterate_ast_list(case_stmt_ast), {"expression"})
    IN  IF governing = NoTree THEN None ELSE find_first_var(governing)

\* case_list -> case_list_element -> integer_literal: the first one found
_extract_state_id(element) ==
    LET literals ==
          Flatten([i \in 1..Len(element.kids) |->
             IF ~ _is_node_type(element.kids[i], "case_list") THEN <<>>
             ELSE Flatten([j \in 1..Len(element.kids[i].kids) |->
                    IF ~ _is_node_type(element.kids[i].kids[j], "case_list_element")
                    THEN <<>>
                    ELSE SelectSeq(element.kids[i].kids[j].kids,
                                   LAMBDA n : _is_node_type(n, "integer_literal"))])])
    IN  IF Len(literals) = 0 THEN None ELSE _extract_text(literals[1])

build_pdg_for_state(state_id, case_element_ast, order) ==
    LET statements == _extract_statement_list(case_element_ast)
        g == ProgramDependencyGraph(state_id)
    IN  IF Len(statements) = 0 THEN g
        ELSE _add_data_dependencies(
                 _add_control_dependencies(
                     _create_nodes_from_statements(g, statements)), order)

\* pdgs[state_id] = pdg
StoredPdg(pdgs, state_id, g) ==
    [s \in DOMAIN pdgs \cup {state_id} |-> IF s = state_id THEN g ELSE pdgs[s]]

RECURSIVE ElementLoop(_, _, _)
\* for case_elem in case_elements
ElementLoop(elements, pdgs, order) ==
    IF Len(elements) = 0 THEN pdgs
    ELSE LET state_id == _extract_state_id(Head(elements))
         IN  ElementLoop(Tail(elements),
                 IF state_id # None
                 THEN StoredPdg(pdgs, state_id,
                                build_pdg_for_state(state_id, Head(elements), order))
                 ELSE pdgs,
                 order)

RECURSIVE CaseLoop(_, _, _)
\* for case_stmt in case_statements
CaseLoop(case_statements, built, order) ==
    IF Len(case_statements) = 0 THEN built
    ELSE LET case_stmt == Head(case_statements)
         IN  CaseLoop(Tail(case_statements),
                 [pdgs |-> ElementLoop(_find_all_nodes(case_stmt, "case_element"),
                                       built.pdgs, order),
                  state_variable |-> IF built.state_variable = None
                                     THEN _extract_state_variable(case_stmt)
                                     ELSE built.state_variable],
                 order)

build_all_pdgs(program_ast, order) ==
    CaseLoop(_find_all_nodes(program_ast, "case_statement"),
             [pdgs |-> <<>>, state_variable |-> None], order)

CaseInit ==
    /\ source \in CasePrograms
    /\ variables = <<>>
    /\ state_variable = None
    /\ hash_order = <<>>
    /\ ast = NoTree
    /\ pdg = <<>>
    /\ templates = <<>>
    /\ pc = "case_source"
    /\ ClassifierIdle
    /\ ParserIdle

\* parse: the tree of the program
ParseCase ==
    /\ pc = "case_source"
    /\ ast' = CaseProgramTree(source)
    /\ pc' = "case_parsed"
    /\ UNCHANGED <<source, variables, state_variable, hash_order, pdg, templates>>
    /\ UNCHANGED <<classifierVars, parserVars>>

\* build_all_pdgs(ast)
BuildAllPdgs ==
    /\ pc = "case_parsed"
    /\ \E order \in HashOrders :
         LET built == build_all_pdgs(ast, order)
         IN  /\ hash_order' = order
             /\ variables' = extract_variables_from_ast(ast)
             /\ pdg' = built.pdgs
             /\ state_variable' = built.state_variable
    /\ pc' = "pdgs_built"
    /\ UNCHANGED <<source, ast, templates>>
    /\ UNCHANGED <<classifierVars, parserVars>>

CaseNext == ParseCase \/ BuildAllPdgs

CaseSpec == CaseInit /\ [][CaseNext]_vars

\* the statements of the nodes of a PDG, in the order of their ids
NodeStatements(g) == [i \in 1..Len(g.nodes) |-> g.nodes[i].statement]

\* C23: build_all_pdgs analyses only the top-level CASE statement: the map has
\* exactly one PDG per arm of that CASE, keyed by the arm's state id and built
\* from that arm, and the state variable is the variable that CASE switches on;
\* a CASE statement inside an arm adds no PDG and replaces none.
C23_OnlyTopLevelCase ==
    pc = "pdgs_built" =>
        /\ state_variable = source.selector
        /\ DOMAIN pdg = { source.arms[i].label : i \in 1..Len(source.arms) }
        /\ \A i \in 1..Len(source.arms) :
               /\ source.arms[i].label \in DOMAIN pdg
               /\ pdg[source.arms[i].label] =
                      build_pdg_for_state(source.arms[i].label,
                                          ArmElement(source.arms[i]), hash_order)


(***************************************************************************)
(* compile_to_xml_with_analysis and the boundary that runs it: parse,      *)
(* build_all_pdgs, extract_invariants_from_all_pdgs, conversion to XML,    *)
(* then output and exit code.  Whether one of the two analysis calls       *)
(* raises is an input of the step.  pdg holds pdgs (none: still None),     *)
(* templates the map of the invariants, result what the run has printed,   *)
(* returned and raised.                                                    *)
(***************************************************************************)
Pdgs(none, pdgs) == [none |-> none, pdgs |-> pdgs]

\* for state_id, pdg in pdgs.items(): extract_invariants_from_pdg
extract_invariants_from_all_pdgs(pdgs, table, state_var, order) ==
    [s \in DOMAIN pdgs |-> extract_all_templates(pdgs[s], table, state_var, order)]

\* the roles of the declared names
Roles(table) == [n \in DOMAIN table |-> table[n].var_type]

CompileInit ==
    /\ source \in CasePrograms
    /\ variables = <<>>
    /\ state_variable = None
    /\ hash_order = <<>>
    /\ ast = NoTree
    /\ pdg = Pdgs(TRUE, <<>>)
    /\ templates = <<>>
    /\ pc = "compile_source"
    /\ ClassifierIdle
    /\ language = None /\ orig = <<>> /\ so_far = <<>> /\ rest_length = -1
    /\ result = [raised |-> {}, printed |-> <<>>, propagated |-> None,
                 xml_output |-> FALSE, exit_code |-> -1]

\* 1. parse the source
CompileParse ==
    /\ pc = "compile_source"
    /\ ast' = CaseProgramTree(source)
    /\ pc' = "compile_parsed"
    /\ UNCHANGED <<source, variables, state_variable, hash_order, pdg, templates>>
    /\ UNCHANGED <<classifierVars, parserVars>>

\* 2. build PDGs: try ... except Exception: print, traceback.print_exc()
CompileBuildPdgs ==
    /\ pc = "compile_parsed"
    /\ \E raises \in BOOLEAN, order \in HashOrders :
         IF raises
         THEN /\ result' = [result EXCEPT !.raised = @ \cup {"build_all_pdgs"},
                               !.printed = Append(@, "DEBUG: ERROR building PDGs")]
              /\ UNCHANGED <<variables, state_variable, hash_order, pdg>>
         ELSE LET built == build_all_pdgs(ast, order)
              IN  /\ pdg' = Pdgs(FALSE, built.pdgs)
                  /\ state_variable' = built.state_variable
                  /\ variables' = extract_variables_from_ast(ast)
                  /\ hash_order' = order
                  /\ UNCHANGED result
    /\ pc' = "compile_pdgs"
    /\ UNCHANGED <<source, ast, templates>>
    /\ UNCHANGED <<classifierVars, language, orig, so_far, rest_length>>

\* 3. extract invariants (if pdgs): try ... except Exception: print, print_exc()
CompileExtractInvariants ==
    /\ pc = "compile_pdgs"
    /\ IF pdg.none \/ DOMAIN pdg.pdgs = {}
       THEN UNCHANGED <<templates, result>>
       ELSE \E raises \in BOOLEAN :
              IF raises
              THEN /\ result' = [result EXCEPT
                          !.raised = @ \cup {"extract_invariants_from_all_pdgs"},
                          !.printed = Append(@, "DEBUG: ERROR extracting invariants")]
                   /\ UNCHANGED templates
              ELSE /\ templates' = extract_invariants_from_all_pdgs(
                                       pdg.pdgs, Roles(variables), state_variable,
                                       hash_order)
                   /\ UNCHANGED result
    /\ pc' = "compile_invariants"
    /\ UNCHANGED <<source, variables, state_variable, hash_order, ast, pdg>>
    /\ UNCHANGED <<classifierVars, language, orig, so_far, rest_length>>

\* 4. convert to XML and return it
CompileConvertToXml ==
    /\ pc = "compile_invariants"
    /\ result' = [result EXCEPT !.xml_output = TRUE]
    /\ pc' = "compile_returned"
    /\ UNCHANGED <<pipelineVars, classifierVars, language, orig, so_far, rest_length>>

\* the caller: an exception that reaches it gives exit code 5, a returned
\* XML text is written and gives exit code 0
CompileExit ==
    /\ pc = "compile_returned"
    /\ result' = [result EXCEPT
                    !.exit_code = IF result.propagated # None THEN 5 ELSE 0]
    /\ pc' = "compile_exited"
    /\ UNCHANGED <<pipelineVars, classifierVars, language, orig, so_far, rest_length>>

CompileNext ==
    \/ CompileParse
    \/ CompileBuildPdgs
    \/ CompileExtractInvariants
    \/ CompileConvertToXml
    \/ CompileExit

CompileSpec == CompileInit /\ [][CompileNext]_vars

\* C24: no error is swallowed: when build_all_pdgs or
\* extract_invariants_from_all_pdgs raised, the exception reaches the caller
\* (exit code 5) and the run produces no XML output.
C24_NoErrorSwallowed ==
    (pc = "compile_exited" /\ result.raised # {}) =>
        /\ result.propagated # None
        /\ result.exit_code = 5
        /\ ~ result.xml_output


(***************************************************************************)
(* Further properties of the PDG of one arm.                               *)
(***************************************************************************)
ControlEdges == { i \in 1..Len(pdg.edges) : pdg.edges[i].edge_type = "control" }

\* C25: in the PDG build_pdg_for_state returns, the source of every control
\* edge is a node of statement_type condition, and the label of every
\* control edge is one of then, elsif, else.
C25_ControlEdgesFromConditions ==
    pc \in BuiltStages =>
        \A i \in ControlEdges :
            /\ NodeOf(pdg, pdg.edges[i].from_node).statement_type = "condition"
            /\ pdg.edges[i].label \in {"then", "elsif", "else"}

\* C25 witness: a finished PDG with a then edge and an else edge of one
\* condition node, the else edge going to a node that follows an assignment
C25_Witness ==
    /\ pc = "built"
    /\ \E i, j \in ControlEdges :
         /\ pdg.edges[i].label = "then"
         /\ pdg.edges[j].label = "else"
         /\ pdg.edges[i].from_node = pdg.edges[j].from_node
         /\ NodeOf(pdg, pdg.edges[j].to_node - 1).statement_type = "assignment"


\* the IF branch a source statement is a top-level statement of (none for a
\* statement of the arm itself)
InnermostBranch(p) ==
    LET enc == SourceStatements[p].enc IN enc[Len(enc)]

\* the top-level statements of the ELSE lists of the IF statements that have
\* a node
ElseStatements ==
    { p \in 1..Len(SourceStatements) :
        /\ Len(SourceStatements[p].enc) > 0
        /\ InnermostBranch(p).branch = "else"
        /\ NodesAt(pdg, InnermostBranch(p).pos) # {} }

VariableLists(list) ==
    [i \in 1..Len(list) |-> <<list[i].sensing_vars, list[i].configuration_vars,
                              list[i].condition_variables>>]

\* C27: the variable lists of the templates do not depend on the order the
\* sets of read variables are iterated in: the extractor run on the same PDG
\* under any iteration order gives the same sensing_vars, configuration_vars
\* and condition_variables; a multi template whose configuration variables
\* are those of H_Sensor <= (H_Target + H_Offset) lists them as
\* [H_Target, H_Offset].
C27_VariableListsDeterministic ==
    pc = "done" =>
        /\ \A order \in HashOrders :
               VariableLists(extract_all_templates(pdg, variables, state_variable, order))
                   = VariableLists(templates)
        /\ \A i \in 1..Len(templates) :
               ( /\ templates[i].type = "multi"
                 /\ RangeOf(templates[i].configuration_vars) = {"H_Target", "H_Offset"} )
               => templates[i].configuration_vars = <<"H_Target", "H_Offset">>


RECURSIVE WalkLength(_, _, _)
\* the number of times the loop `while True` of the inter-state pass moves to
\* the first control predecessor, from current_node_id, when it leaves the
\* loop within fuel moves; -1 when it does not
WalkLength(g, current_node_id, fuel) ==
    LET control_preds == ControlPredecessors(g, current_node_id)
    IN  IF Len(control_preds) = 0 THEN 0
        ELSE IF fuel = 0 THEN -1
        ELSE LET above == WalkLength(g, control_preds[1], fuel - 1)
             IN  IF above = -1 THEN -1 ELSE above + 1

\* C28: every control edge of a built PDG goes to a node with a strictly
\* greater id than its source, and the walk up the chain of first control
\* predecessors from a write of the state variable ends after at most as
\* many moves as the PDG has nodes.
C28_ControlEdgesGoForward ==
    pc \in BuiltStages =>
        /\ \A i \in ControlEdges : pdg.edges[i].from_node < pdg.edges[i].to_node
        /\ \A i \in StateWriters :
               LET moves == WalkLength(pdg, pdg.nodes[i].id, Len(pdg.nodes))
               IN  moves >= 0 /\ moves <= Len(pdg.nodes)

\* C28 witness: a write of the state variable whose walk makes three moves
C28_Witness ==
    /\ pc = "done"
    /\ \E i \in StateWriters :
           WalkLength(pdg, pdg.nodes[i].id, Len(pdg.nodes)) = 3


(***************************************************************************)
(* Backtracking in the parser.                                             *)
(***************************************************************************)
RECURSIVE LeafText(_)
\* the matched strings of a list of trees, in order, as one text
LeafText(nodes) ==
    IF Len(nodes) = 0 THEN <<>>
    ELSE Head(nodes).text \o LeafText(Head(nodes).kids) \o LeafText(Tail(nodes))

\* the patterns all of whose terminals are regular expressions, so that
\* every character they consume is in the tree
TextPatterns ==
    BacktrackPatterns \cup QuantifiedPatterns
        \cup { pattern \in ChoicePatterns : pattern.t = "list" }

\* how many times a b stands at the start of a text
RECURSIVE Pairs(_)
Pairs(chars) ==
    IF Len(chars) >= 2 /\ SubSeq(chars, 1, 2) = <<"a", "b">>
    THEN 1 + Pairs(SubSeq(chars, 3, Len(chars))) ELSE 0

\* the result of [abc]+ after pairs times a b, from the list handed in
AfterPairs(pairs) ==
    LET text == AfterTokens(orig, 2 * pairs)
    IN  IF Len(text) > 0 /\ text[1] \in {"a", "b", "c"}
        THEN result = WordTaken(so_far \o Flatten([i \in 1..pairs |-> <<LeafA, LeafB>>]),
                                text)
        ELSE result.kind = "SyntaxError"

\* C29: a sub-pattern that fails leaves the result list and the text of its
\* caller as they were before the attempt: the tree of a successful parse
\* is the list handed in followed by the matches of the sub-patterns that
\* are part of the parse alone, and these are, in order, the text consumed;
\* after a failed optional a b and after the failing last iteration of a
\* loop over a b the next pattern matches from where the attempt started.
C29_BacktrackingLeavesNoTrace ==
    /\ (pc = "line_parsed" /\ language \in TextPatterns /\ result.kind = "returned") =>
           /\ Len(result.tree) >= Len(so_far)
           /\ SubSeq(result.tree, 1, Len(so_far)) = so_far
           /\ LeafText(SubSeq(result.tree, Len(so_far) + 1, Len(result.tree)))
                  \o NonWs(result.text) = NonWs(orig)
    /\ (pc = "line_parsed" /\ language = Sequence(<<Quantifier(0), Re_ab, Many_abc>>)) =>
           AfterPairs(IF Pairs(NonWs(orig)) >= 1 THEN 1 ELSE 0)
    /\ (pc = "line_parsed" /\ language = Sequence(<<Quantifier(-1), Re_ab, Many_abc>>)) =>
           AfterPairs(Pairs(NonWs(orig)))

\* C29 witness: the second iteration of the loop over a b matches a and fails
\* on c; [abc]+ then takes the a, and the tree holds one a b and that a only
C29_Witness ==
    /\ pc = "line_parsed"
    /\ language = Sequence(<<Quantifier(-1), Re_ab, Many_abc>>)
    /\ orig = <<"a", "b", "a", " ">>
    /\ so_far = <<LeafP(<<"z">>)>>
    /\ result = ReturnedTree(<<LeafP(<<"z">>), LeafA, LeafB, LeafA>>, <<>>)


(***************************************************************************)
(* The loops of the parser, one step per iteration: the loop `while True`  *)
(* of a sub-pattern under the quantifier -1 or -2 in a tuple, and the loop *)
(* of skip over the comments.  result holds the locals of the loop: the    *)
(* quantifier n, the result list, the text, found, and whether the tuple   *)
(* raised SyntaxError after the loop; language is the repeated sub-pattern *)
(* (the comment pattern for skip) and orig the text the loop starts on.    *)
(***************************************************************************)
MaxLoopLen == 3

\* the repeated sub-patterns: a, a*, [ab]+, [ab]*
LoopPatterns ==
    { Re_a, Re("any", <<"a">>), Re("many", <<"a", "b">>), Re("any", <<"a", "b">>) }

\* parse_line on a regular expression (whitespace skipped, no comments): the
\* match is taken off the text and handed to r, no match raises SyntaxError
RegexPass(pattern, text, res, rest) ==
    IF RegexMatch(pattern.name[1], pattern.word, text) = -1 THEN Raised(rest)
    ELSE r(<<>>, res,
           StrResult(SubSeq(text, 1, RegexMatch(pattern.name[1], pattern.word, text))),
           StripWs(SubSeq(text, RegexMatch(pattern.name[1], pattern.word, text) + 1,
                          Len(text))),
           rest)

\* the default comment pattern, and x*
CommentPatterns == { CommentPattern, Re("any", <<"x">>) }

LoopTexts == UNION { [1..k -> {"a", "b", " "}] : k \in 0..MaxLoopLen }

SkipTexts == UNION { [1..k -> {"{", "}", "x", " "}] : k \in 0..MaxLoopLen }

Locals(n, list, text, found, raised) ==
    [n |-> n, list |-> list, text |-> text, found |-> found, raised |-> raised]

LoopInit ==
    /\ PipelineIdle
    /\ ClassifierIdle
    /\ so_far = <<>>
    /\ rest_length = -1
    /\ \/ /\ pc = "loop"
          /\ language \in LoopPatterns
          /\ orig \in LoopTexts
          /\ \E n \in {-1, -2} : result = Locals(n, <<>>, StripWs(orig), FALSE, FALSE)
       \/ /\ pc = "skip_loop"
          /\ language \in CommentPatterns
          /\ orig \in SkipTexts
          /\ result = Locals(0, <<>>, StripWs(orig), FALSE, FALSE)

\* one pass of `while True` in which parse_line returns
LoopIterate ==
    /\ pc = "loop"
    /\ LET one == RegexPass(language, result.text, result.list, rest_length)
       IN  /\ one.ok
           /\ result' = Locals(result.n, one.result, one.text, TRUE, FALSE)
           /\ rest_length' = one.rest_length
    /\ pc' = "loop"
    /\ UNCHANGED <<pipelineVars, classifierVars, language, orig, so_far>>

\* the pass in which parse_line raises SyntaxError: break, and -2 raises if
\* nothing was found
LoopBreak ==
    /\ pc = "loop"
    /\ LET one == RegexPass(language, result.text, result.list, rest_length)
       IN  /\ ~ one.ok
           /\ result' = [result EXCEPT !.raised = (result.n = -2 /\ ~ result.found)]
           /\ rest_length' = one.rest_length
    /\ pc' = "loop_done"
    /\ UNCHANGED <<pipelineVars, classifierVars, language, orig, so_far>>

\* one pass of the loop of skip in which the skipper parses a comment off
SkipIterate ==
    /\ pc = "skip_loop"
    /\ LET m == RegexMatch(language.name[1], language.word, result.text)
       IN  /\ m # -1
           /\ result' = [result EXCEPT
                           !.text = StripWs(SubSeq(result.text, m + 1, Len(result.text))),
                           !.found = TRUE]
    /\ pc' = "skip_loop"
    /\ UNCHANGED <<pipelineVars, classifierVars, language, orig, so_far, rest_length>>

\* the pass in which the skipper raises SyntaxError: skip returns the text
SkipBreak ==
    /\ pc = "skip_loop"
    /\ RegexMatch(language.name[1], language.word, result.text) = -1
    /\ pc' = "skip_done"
    /\ UNCHANGED <<pipelineVars, classifierVars, parserVars>>

LoopNext == LoopIterate \/ LoopBreak \/ SkipIterate \/ SkipBreak

LoopSpec == LoopInit /\ [][LoopNext]_vars

\* a loop that can make a pass makes it: the code between two passes always
\* runs on
LoopFairSpec == LoopSpec /\ WF_vars(LoopNext)

\* C30: every repetition loop ends: the loop of a sub-pattern under -1 or -2
\* and the comment loop of skip leave the loop after finitely many passes,
\* also when the sub-pattern or the comment pattern matches without
\* consuming any text.
C30_LoopsTerminate == <>(pc \in {"loop_done", "skip_done"})

====
